---- MODULE Spec2Model ----
(***************************************************************************)
(* A model of eurochef's EDB decoding paths:                               *)
(*   - read_from_file   (gui/src/maps.rs): the map graph assembler         *)
(*   - execute_command  (src/edb/entities.rs): the entity mesh extractor   *)
(*   - EntityRenderer::load_mesh, draw_both, draw_strip                    *)
(*     (gui/src/render/entity.rs): the strip renderer on a GL context      *)
(*   - MapFrame::show, show_canvas and its paint callback                  *)
(*     (gui/src/map_frame.rs): the draw order and the mutexes              *)
(*   - EurochefApp::new, update (gui/src/app.rs): the load_input cell      *)
(* A byte source is modelled by what decoding it yields: slot 0 holds the  *)
(* header, every other address holds one record (or an undecodable one).   *)
(***************************************************************************)
EXTENDS Integers, Sequences, FiniteSets, TLC

VARIABLES
    reader,      \* maps.rs: the byte source handed to read_from_file
    pos,         \* current position of the byte source in use
    pc,          \* position of the running operation in its code
    panic,       \* "" or the place where the operation panicked
    endian,      \* "Big" / "Little" once probed
    header,      \* decoded EXGeoHeader
    maps,        \* maps.rs: Vec<ProcessedMap> being returned
    map,         \* maps.rs: the ProcessedMap under construction
    xmap,        \* maps.rs: the decoded EXGeoMap of this iteration
    mi,          \* maps.rs: 1-based index into header.map_list
    zi,          \* maps.rs: 1-based index into xmap.zones
    ti,          \* maps.rs: 1-based index into xmap.trigger_header.triggers
    i,           \* maps.rs: outer index of the back-edge loop (0-based)
    file,        \* entities.rs: the opened EDB file
    platform,    \* entities.rs: the platform argument / detection result
    fs,          \* entities.rs: output folder state and the .obj files written
    result,      \* entities.rs: "" while running, then the returned value
    eidx,        \* entities.rs: 1-based index into header.entity_list
    nents,       \* entities.rs: the child list of the current entity
    ci,          \* entities.rs: 1-based index into nents
    vertex_data, \* entities.rs
    faces,       \* entities.rs
    index_offset,        \* entities.rs
    indices,             \* entities.rs: the current child's index buffer
    tristrips,           \* entities.rs: the current child's (tricount, texture)
    tristrip_reads,      \* the offsets at which its descriptors were read
    si,                  \* entities.rs: 1-based index into tristrips
    index_offset_local,  \* entities.rs
    fi,                  \* entities.rs: the loop variable `i` of lines 135-149
    index_reads,         \* positions of `indices` read for the current child
    strips,      \* render/entity.rs: the strips of the mesh handed to load_mesh
    mesh,        \* render/entity.rs: EntityRenderer.mesh (its sorted strips)
    renderer_platform,   \* render/entity.rs: EntityRenderer.platform
    textures,    \* render/entity.rs: the texture table handed to the draw calls
    gl,          \* the state of the GL context the draw calls act on
    draws,       \* the draw_elements calls issued, with the GL state they saw
    strip_calls, \* the calls of draw_strip: the pass and the strip handed over
    sidx,        \* render/entity.rs: 1-based position of `for t in strips`
    map_frame,   \* map_frame.rs: MapFrame's renderers and sky_ent, the map's placements
    scheduling,  \* how the GUI integration runs paint callbacks
    tpc,         \* map_frame.rs: position of each thread in show / the paint callback
    tloc,        \* map_frame.rs: the locals of each thread
    holder,      \* the thread holding each Mutex, or Free
    depth_mask,  \* the depth write mask of the GL context of the painter
    paint_log,   \* per thread, the GL calls of its current callback execution
    callbacks,   \* the paint callbacks added to the painter and not yet run
    shown,       \* the number of show() calls completed
    load_input,  \* app.rs: the AtomicCell<Option<String>> (None is NoPath)
    app_pc,      \* app.rs: position of the GUI thread inside update()
    load_path,   \* app.rs: the binding `load_path` of line 90
    dialogs,     \* app.rs: the file-dialog threads spawned and still running
    app_log,     \* the store, take and load_file calls in their order
    updates      \* the number of update() calls started

sharedVars == <<pos, pc, panic, endian, header>>

mapVars == <<reader, maps, map, xmap, mi, zi, ti, i>>

entVars == <<file, platform, fs, result, eidx, nents, ci, vertex_data, faces,
             index_offset, indices, tristrips, tristrip_reads, si,
             index_offset_local, fi, index_reads>>

meshVars == <<strips, mesh, renderer_platform, textures, gl, draws, strip_calls,
             sidx>>

paintVars == <<map_frame, scheduling, tpc, tloc, holder, depth_mask, paint_log,
              callbacks, shown>>

appVars == <<load_input, app_pc, load_path, dialogs, app_log, updates>>

guiVars == <<paintVars, appVars>>

vars == <<sharedVars, mapVars, entVars, meshVars, guiVars>>

-----------------------------------------------------------------------------
(* Bounds of the explored inputs *)

MaxMaps == 2
MaxZones == 2
MaxRefs == 2
MaxTriggers == 3
MaxLinks == 3
MaxTypes == 2
MaxIndices == 6
MaxTri == 3
MaxStrips == 3
MaxVerts == 3
MaxChildren == 2
MaxEntities == 2
MaxMeshStrips == 4
MaxTransparency == 2
MaxDrawStrips == 2
MaxRefRenderers == 2
MaxPlacementRenderers == 2
MaxPlacements == 2
MaxFrames == 2
MaxPaths == 2
MaxUpdates == 3

-----------------------------------------------------------------------------
(* Program constants *)

EndianMagic == 71
SubtypeUnset == 1107296257
NormalObjectType == 1537
LastOldVersion == 252
StrideOld == 20
StrideNew == 16

-----------------------------------------------------------------------------
(* Generic helpers *)

SeqsUpTo(S, n) == UNION {[1..k -> S] : k \in 0..n}

Range(s) == {s[k] : k \in 1..Len(s)}

RECURSIVE Assignments(_, _, _)
\* sequences of n lists over S holding at most e elements in total
Assignments(n, e, S) ==
    IF n = 0 THEN {<<>>}
    ELSE UNION {LET rests == Assignments(n - 1, e - k, S)
                IN  UNION {{<<l>> \o rest : rest \in rests} : l \in [1..k -> S]}
                : k \in 0..e}

None == <<>>
Some(v) == <<v>>

-----------------------------------------------------------------------------
(* Input byte sources for read_from_file *)

BadRecord == [kind |-> "bad"]

RawSubtypes == {0, SubtypeUnset, SubtypeUnset + 1}

RawTrigger(k, type_index, links) ==
    [link_ref |-> k - 1, trigger |-> [type_index |-> type_index, links |-> links]]

TriggerType(k, sub) == [trig_type |-> 100 + k, trig_subtype |-> sub]

MapRecord(zones, types, triggers) ==
    [kind |-> "map",
     zones |-> [k \in 1..Len(zones) |-> [entity_refptr |-> zones[k]]],
     placements |-> <<[object_ref |-> 7]>>,
     trigger_header |-> [trigger_types |-> types,
                         triggers |-> triggers,
                         trigger_collisions |-> <<>>]]

EntityRecord(variant, payload) ==
    [kind |-> "entity", variant |-> variant, entity_refptr |-> payload]

\* the byte source: map k at address k, refpointer target r after the maps
MapFile(byte0, hdr_ok, mapRecs, refRecs) ==
    [byte0 |-> byte0,
     header |-> [decodable |-> hdr_ok,
                 map_list |-> [k \in 1..Len(mapRecs) |->
                                  [hashcode |-> 1000 + k, address |-> k]],
                 refpointer_list |-> [r \in 1..Len(refRecs) |->
                                  [address |-> Len(mapRecs) + r]]],
     data |-> mapRecs \o refRecs]

OneType == <<TriggerType(1, 0)>>

RefKinds == {"MapZone", "Other", "Bad"}

RefRecord(kind, r) ==
    IF kind = "Bad" THEN BadRecord ELSE EntityRecord(kind, r)

LinkedPair == <<RawTrigger(1, 0, <<1>>), RawTrigger(2, 0, <<>>)>>

MagicBytes == {EndianMagic, 0, 70, -1}

\* one map whose triggers carry arbitrary links (negative, self, repeated,
\* out of range), at most MaxLinks link entries in the map
IsGraphFile(f) ==
    \E T \in 0..MaxTriggers :
        \E ls \in Assignments(T, MaxLinks, -1..T) :
            f = MapFile(0, TRUE,
                        <<MapRecord(<<>>, OneType,
                                    [k \in 1..T |-> RawTrigger(k, 0, ls[k])])>>,
                        <<>>)

\* one map whose triggers index a table of trigger types (some out of range)
IsTypeFile(f) ==
    \E subs \in SeqsUpTo(RawSubtypes, MaxTypes) :
        \E tix \in SeqsUpTo(0..Len(subs), MaxTriggers) :
            f = MapFile(0, TRUE,
                        <<MapRecord(<<>>,
                                    [k \in 1..Len(subs) |-> TriggerType(k, subs[k])],
                                    [k \in 1..Len(tix) |-> RawTrigger(k, tix[k], <<>>)])>>,
                        <<>>)

\* several maps whose zones point into the refpointer table (some out of
\* range), at most MaxZones zones in the file
IsZoneFile(f) ==
    \E n \in 0..MaxMaps :
        \E kinds \in SeqsUpTo(RefKinds, MaxRefs) :
            \E zs \in Assignments(n, MaxZones, 0..Len(kinds)) :
                f = MapFile(EndianMagic, TRUE,
                            [k \in 1..Len(zs) |-> MapRecord(zs[k], OneType, LinkedPair)],
                            [r \in 1..Len(kinds) |-> RefRecord(kinds[r], r)])

\* header-level variations: the magic byte, an empty source, an undecodable
\* header, undecodable map records
IsHeaderFile(f) ==
    \E b \in MagicBytes, ok \in BOOLEAN :
        \E rd \in SeqsUpTo(BOOLEAN, MaxMaps) :
            f = MapFile(b, ok,
                        [k \in 1..Len(rd) |->
                            IF rd[k] THEN MapRecord(<<>>, OneType, <<>>) ELSE BadRecord],
                        <<>>)

IsMapFile(f) == IsGraphFile(f) \/ IsTypeFile(f) \/ IsZoneFile(f) \/ IsHeaderFile(f)

-----------------------------------------------------------------------------
(* read_from_file, gui/src/maps.rs *)

\* reader.seek(SeekFrom::Start(a))
SeekStart(a) == a

\* decoding one record at address a; the position ends after the record
ReadAt(src, a) ==
    IF a \in 1..Len(src.data) THEN src.data[a] ELSE BadRecord

\* a fold that forgets the second "no subtype" value
FoldSubtypeZeroOnly(tsubtype) ==
    IF tsubtype # 0 THEN Some(tsubtype) ELSE None

\* tsubtype: the fold of the two "no subtype" raw values
FoldSubtype(tsubtype) ==
    IF tsubtype # 0 /\ tsubtype # SubtypeUnset THEN Some(tsubtype) ELSE None

\* a find that compares against the 1-based index
LinksFindOneBased(links, idx) == \E k \in 1..Len(links) : links[k] = idx + 1

\* links.iter().find(|v| **v == i as i32).is_some()
LinksFind(links, idx) == \E k \in 1..Len(links) : links[k] = idx

RECURSIVE IncomingLoopNoSkip(_, _, _, _)
\* the inner loop without its `if i == ei { continue; }`
IncomingLoopNoSkip(triggers, idx, ei, acc) ==
    IF ei >= Len(triggers) THEN acc
    ELSE IF LinksFind(triggers[ei + 1].links, idx)
         THEN IncomingLoopNoSkip(triggers, idx, ei + 1, Append(acc, ei))
         ELSE IncomingLoopNoSkip(triggers, idx, ei + 1, acc)

RECURSIVE IncomingLoopPerLink(_, _, _, _)
\* an inner loop that pushes ei once for every link of triggers[ei] equal to i
IncomingLoopPerLink(triggers, idx, ei, acc) ==
    IF ei >= Len(triggers) THEN acc
    ELSE IF idx = ei THEN IncomingLoopPerLink(triggers, idx, ei + 1, acc)
    ELSE LET links == triggers[ei + 1].links
             n == Cardinality({k \in 1..Len(links) : links[k] = idx})
         IN  IncomingLoopPerLink(triggers, idx, ei + 1, acc \o [k \in 1..n |-> ei])

RECURSIVE IncomingLoop(_, _, _, _)
\* the inner loop `for ei in 0..map.triggers.len()` for one i
IncomingLoop(triggers, idx, ei, acc) ==
    IF ei >= Len(triggers) THEN acc
    ELSE IF idx = ei THEN IncomingLoop(triggers, idx, ei + 1, acc)
    ELSE IF LinksFind(triggers[ei + 1].links, idx)
         THEN IncomingLoop(triggers, idx, ei + 1, Append(acc, ei))
         ELSE IncomingLoop(triggers, idx, ei + 1, acc)

\* a probe that takes every magic byte but 0x47 for big endian
ProbeEndianInverted(byte0) == IF byte0 = EndianMagic THEN "Little" ELSE "Big"

\* maps.rs 148-152, entities.rs 35-39:
\* `if byte == 0x47 { Endian::Big } else { Endian::Little }`
ProbeEndian(byte0) == IF byte0 = EndianMagic THEN "Big" ELSE "Little"

\* a match that pushes the payload of every decoded variant
PushAnyVariant(m, ent) ==
    [m EXCEPT !.mapzone_entities = Append(@, [entity_refptr |-> ent.entity_refptr])]

\* lines 189-197: `if let EXGeoEntity::MapZone(mapzone) = ent { push } else
\* { error!(..) }`: another variant is logged and leaves the map as it is
PushMapZone(m, ent) ==
    IF ent.variant = "MapZone"
    THEN [m EXCEPT !.mapzone_entities = Append(@, [entity_refptr |-> ent.entity_refptr])]
    ELSE m

Panic(where) ==
    /\ pc' = "panic"
    /\ panic' = where

\* lines 147-152: seek to 0, read the magic byte
ReadMagic ==
    /\ pc = "start"
    /\ IF reader.byte0 < 0
       THEN /\ Panic("read_ne")
            /\ pos' = SeekStart(0)
            /\ UNCHANGED endian
       ELSE /\ endian' = ProbeEndian(reader.byte0)
            /\ pos' = SeekStart(0) + 1
            /\ pc' = "rewind"
            /\ UNCHANGED panic
    /\ UNCHANGED <<reader, header, maps, map, xmap, mi, zi, ti, i>>
    /\ UNCHANGED <<entVars, meshVars, guiVars>>

\* line 153
Rewind ==
    /\ pc = "rewind"
    /\ pos' = SeekStart(0)
    /\ pc' = "header"
    /\ UNCHANGED <<reader, panic, endian, header, maps, map, xmap, mi, zi, ti, i>>
    /\ UNCHANGED <<entVars, meshVars, guiVars>>

\* lines 155-159
ReadHeader ==
    /\ pc = "header"
    /\ IF ~reader.header.decodable
       THEN /\ Panic("header")
            /\ UNCHANGED <<header, maps, mi, pos>>
       ELSE /\ header' = reader.header
            /\ maps' = <<>>
            /\ mi' = 1
            /\ pos' = pos + 1
            /\ pc' = "maps"
            /\ UNCHANGED panic
    /\ UNCHANGED <<reader, endian, map, xmap, zi, ti, i>>
    /\ UNCHANGED <<entVars, meshVars, guiVars>>

\* lines 160-176: the head of `for m in header.map_list.iter()`, and line 251
NextMap ==
    /\ pc = "maps"
    /\ IF mi > Len(header.map_list)
       THEN /\ pc' = "done"
            /\ UNCHANGED <<pos, panic, map, xmap, zi>>
       ELSE LET m == header.map_list[mi]
                rec == ReadAt(reader, SeekStart(m.address))
            IN  /\ pos' = SeekStart(m.address) + 1
                /\ IF rec.kind # "map"
                   THEN /\ Panic("map")
                        /\ UNCHANGED <<map, xmap, zi>>
                   ELSE /\ xmap' = rec
                        /\ map' = [hashcode |-> m.hashcode,
                                   mapzone_entities |-> <<>>,
                                   placements |-> rec.placements,
                                   triggers |-> <<>>,
                                   trigger_collisions |->
                                       rec.trigger_header.trigger_collisions]
                        /\ zi' = 1
                        /\ pc' = "zones"
                        /\ UNCHANGED panic
    /\ UNCHANGED <<reader, endian, header, maps, mi, ti, i>>
    /\ UNCHANGED <<entVars, meshVars, guiVars>>

\* lines 178-198: one iteration of `for z in &xmap.zones`
ReadZone ==
    /\ pc = "zones"
    /\ IF zi > Len(xmap.zones)
       THEN /\ ti' = 1
            /\ pc' = "triggers"
            /\ UNCHANGED <<pos, panic, map, zi>>
       ELSE LET z == xmap.zones[zi]
            IN  IF z.entity_refptr >= Len(header.refpointer_list)
                THEN /\ Panic("refpointer_list")
                     /\ UNCHANGED <<pos, map, zi, ti>>
                ELSE LET entity_offset ==
                             header.refpointer_list[z.entity_refptr + 1].address
                         ent == ReadAt(reader, SeekStart(entity_offset))
                     IN  /\ pos' = SeekStart(entity_offset) + 1
                         /\ IF ent.kind # "entity"
                            THEN /\ Panic("entity")
                                 /\ UNCHANGED <<map, zi, ti>>
                            ELSE /\ map' = PushMapZone(map, ent)
                                 /\ zi' = zi + 1
                                 /\ UNCHANGED <<pc, panic, ti>>
    /\ UNCHANGED <<reader, endian, header, maps, xmap, mi, i>>
    /\ UNCHANGED <<entVars, meshVars, guiVars>>

\* lines 200-229: one iteration of `for t in xmap.trigger_header.triggers`
AssembleTrigger ==
    /\ pc = "triggers"
    /\ LET th == xmap.trigger_header
       IN  IF ti > Len(th.triggers)
           THEN /\ i' = 0
                /\ pc' = "links"
                /\ UNCHANGED <<panic, map, ti>>
           ELSE LET t == th.triggers[ti]
                    trig == t.trigger
                IN  IF trig.type_index >= Len(th.trigger_types)
                    THEN /\ Panic("trigger_types")
                         /\ UNCHANGED <<map, ti, i>>
                    ELSE LET tt == th.trigger_types[trig.type_index + 1]
                         IN  /\ map' = [map EXCEPT !.triggers = Append(@,
                                          [link_ref |-> t.link_ref,
                                           ttype |-> tt.trig_type,
                                           tsubtype |-> FoldSubtype(tt.trig_subtype),
                                           links |-> trig.links,
                                           incoming_links |-> <<>>])]
                             /\ ti' = ti + 1
                             /\ UNCHANGED <<pc, panic, i>>
    /\ UNCHANGED <<reader, pos, endian, header, maps, xmap, mi, zi>>
    /\ UNCHANGED <<entVars, meshVars, guiVars>>

\* lines 231-248: one iteration of `for i in 0..map.triggers.len()`, then
\* maps.push(map)
ComputeIncoming ==
    /\ pc = "links"
    /\ IF i >= Len(map.triggers)
       THEN /\ maps' = Append(maps, map)
            /\ mi' = mi + 1
            /\ pc' = "maps"
            /\ UNCHANGED <<map, i>>
       ELSE /\ map' = [map EXCEPT !.triggers[i + 1].incoming_links =
                          IncomingLoop(map.triggers, i, 0, @)]
            /\ i' = i + 1
            /\ UNCHANGED <<pc, maps, mi>>
    /\ UNCHANGED <<reader, pos, panic, endian, header, xmap, zi, ti>>
    /\ UNCHANGED <<entVars, meshVars, guiVars>>

IdleEntities ==
    /\ file = "idle"
    /\ platform = "idle"
    /\ fs = "idle"
    /\ result = ""
    /\ eidx = 0
    /\ nents = <<>>
    /\ ci = 0
    /\ vertex_data = <<>>
    /\ faces = <<>>
    /\ index_offset = 0
    /\ indices = <<>>
    /\ tristrips = <<>>
    /\ tristrip_reads = <<>>
    /\ si = 0
    /\ index_offset_local = 0
    /\ fi = 0
    /\ index_reads = {}

IdleMesh ==
    /\ strips = <<>>
    /\ mesh = None
    /\ renderer_platform = "idle"
    /\ textures = <<>>
    /\ gl = "idle"
    /\ draws = <<>>
    /\ strip_calls = <<>>
    /\ sidx = 0

IdlePaint ==
    /\ map_frame = "idle"
    /\ scheduling = "idle"
    /\ tpc = <<>>
    /\ tloc = <<>>
    /\ holder = <<>>
    /\ depth_mask = TRUE
    /\ paint_log = <<>>
    /\ callbacks = <<>>
    /\ shown = 0

IdleApp ==
    /\ load_input = None
    /\ app_pc = "idle"
    /\ load_path = None
    /\ dialogs = 0
    /\ app_log = <<>>
    /\ updates = 0

IdleGui ==
    /\ IdlePaint
    /\ IdleApp

IdleMaps ==
    /\ reader = "idle"
    /\ maps = <<>>
    /\ map = "unset"
    /\ xmap = "unset"
    /\ mi = 0
    /\ zi = 0
    /\ ti = 0
    /\ i = 0

\* the state in which read_from_file is entered
StartMaps ==
    /\ pos = 0
    /\ pc = "start"
    /\ panic = ""
    /\ endian = "unset"
    /\ header = "unset"
    /\ maps = <<>>
    /\ map = "unset"
    /\ xmap = "unset"
    /\ mi = 0
    /\ zi = 0
    /\ ti = 0
    /\ i = 0
    /\ IdleEntities
    /\ IdleMesh
    /\ IdleGui

InitMaps ==
    /\ IsMapFile(reader)
    /\ StartMaps

NextMaps ==
    \/ ReadMagic
    \/ Rewind
    \/ ReadHeader
    \/ NextMap
    \/ ReadZone
    \/ AssembleTrigger
    \/ ComputeIncoming

SpecMaps == InitMaps /\ [][NextMaps]_vars

-----------------------------------------------------------------------------
(* Input files for execute_command, src/edb/entities.rs *)

\* a vertex record of the file: position, then a normal (or, for the old
\* layout, a packed colour), then uv
RawVertex(c, k) == [pos |-> 10 * c + k, mid |-> <<c, k, 1>>, uv |-> <<k, c>>]

\* the fields of EXGeoEntity.normal_entity that execute_command reads
NormalEntity(c, vcount, idx, tris) ==
    [vertex_count |-> vcount,
     vertex_data |-> [k \in 1..vcount |-> RawVertex(c, k)],
     index_count |-> Len(idx),
     index_data |-> idx,
     tristrip_count |-> Len(tris),
     tristrip_offset |-> 1000 * c,
     tristrip_data |-> [k \in 1..Len(tris) |-> <<tris[k], k>>]]

\* the size of a tristrip descriptor in a file of the given version
DescriptorSize(version) == IF version <= LastOldVersion THEN StrideOld ELSE StrideNew

BaseEntity(object_type, normal, split) ==
    [kind |-> "base_entity",
     object_type |-> object_type,
     normal_entity |-> normal,
     split_entity |-> split]

SplitEntity(children) ==
    [entities |-> [k \in 1..Len(children) |-> [normal_entity |-> children[k]]]]

\* the file: entity k at address k
EntityFile(byte0, hdr_ok, version, recs) ==
    [byte0 |-> byte0,
     header |-> [decodable |-> hdr_ok,
                 version |-> version,
                 entity_list |-> [k \in 1..Len(recs) |->
                                     [hashcode |-> 2000 + k, address |-> k]]],
     data |-> recs]

Platforms == {"Pc", "Xbox", "GameCube", "Wii", "Ps2"}

Versions == {240, 250, 251, 252, 253}

\* one normal entity whose index buffer is 0, 1, 2, ... and whose strips
\* carry arbitrary tri counts (also more than the buffer covers)
IsStripFile(f) ==
    \E n \in 0..MaxIndices :
        \E tris \in SeqsUpTo(0..MaxTri, MaxStrips) :
            f = EntityFile(0, TRUE, 252,
                    <<BaseEntity(NormalObjectType,
                          Some(NormalEntity(1, n, [k \in 1..n |-> k - 1], tris)),
                          None)>>)

\* one normal entity with one strip of two triangles over arbitrary indices
IsIndexFile(f) ==
    \E v \in 0..MaxVerts :
        \E idx \in [1..4 -> 0..MaxVerts] :
            f = EntityFile(0, TRUE, 252,
                    <<BaseEntity(NormalObjectType,
                          Some(NormalEntity(1, v, idx, <<2>>)), None)>>)

ChildKinds == (0..MaxVerts) \X BOOLEAN \X BOOLEAN

Child(c, kind) ==
    IF kind[3]
    THEN Some(NormalEntity(c, kind[1], <<0, 1, 2, 1>>,
                           IF kind[2] THEN <<2>> ELSE <<>>))
    ELSE None

\* one entity, split into children or normal, some of the pointers null
IsSplitFile(f) ==
    \/ \E kinds \in SeqsUpTo(ChildKinds, MaxChildren) :
           \E ot \in {NormalObjectType, NormalObjectType + 1} :
               f = EntityFile(0, TRUE, 253,
                       <<BaseEntity(ot,
                             IF Len(kinds) > 0 THEN Child(1, kinds[1]) ELSE None,
                             Some(SplitEntity([c \in 1..Len(kinds) |->
                                                  Child(c, kinds[c])])))>>)
    \/ f = EntityFile(0, TRUE, 253, <<BaseEntity(NormalObjectType + 1, None, None)>>)

Triangle == NormalEntity(1, 3, <<0, 1, 2, 1>>, <<2>>)

TwoStrips == NormalEntity(1, 3, <<0, 1, 2, 1, 0, 2>>, <<2, 2>>)

\* one normal entity whose counts say less, as much or more than its buffers
\* hold; the version varies
IsRaggedFile(f) ==
    \E ver \in Versions :
        \E vc \in 0..(TwoStrips.vertex_count + 1),
           ic \in 0..(TwoStrips.index_count + 1),
           tc \in 0..(TwoStrips.tristrip_count + 1) :
            f = EntityFile(0, TRUE, ver,
                    <<BaseEntity(NormalObjectType,
                          Some([TwoStrips EXCEPT !.vertex_count = vc,
                                                 !.index_count = ic,
                                                 !.tristrip_count = tc]),
                          None)>>)

\* several entities, some undecodable; the platform, the version, the magic
\* byte and the header vary
IsSectionFile(f) ==
    \E b \in {EndianMagic, 0, -1}, ok \in BOOLEAN, ver \in Versions :
        \E rd \in SeqsUpTo(BOOLEAN, MaxEntities) :
            f = EntityFile(b, ok, ver,
                    [k \in 1..Len(rd) |->
                        IF rd[k]
                        THEN BaseEntity(NormalObjectType, Some(Triangle), None)
                        ELSE BadRecord])

-----------------------------------------------------------------------------
(* execute_command, src/edb/entities.rs *)

\* a layout that reads the normal whatever the version
ReadVertexWithNormal(version, raw) ==
    [pos |-> raw.pos, normal |-> raw.mid, uv |-> raw.uv]

\* lines 96-105: the vertex layout depends on the version
ReadVertex(version, raw) ==
    IF version \in {252, 250, 240}
    THEN [pos |-> raw.pos, normal |-> <<0, 0, 0>>, uv |-> raw.uv]
    ELSE [pos |-> raw.pos, normal |-> raw.mid, uv |-> raw.uv]

\* a seek that takes 16 bytes per descriptor whatever the version
TristripOffsetNewOnly(version, base, n) == base + n * StrideNew

\* lines 114-122: where descriptor n (from 0) of a child is sought
TristripOffset(version, base, n) ==
    IF version <= LastOldVersion
    THEN base + n * StrideOld
    ELSE base + n * StrideNew

\* what a read yields past the end of the data
NoDescriptor == <<>>

\* what a read yields when it starts inside a descriptor: bytes of two
\* descriptors taken for one
StraddledDescriptor == <<0, 0>>

\* line 124: the descriptor read at an absolute offset of the file, whose
\* descriptors lie DescriptorSize(version) bytes apart from tristrip_offset on
DescriptorAt(version, nent, offset) ==
    LET d == offset - nent.tristrip_offset
        size == DescriptorSize(version)
    IN  IF d < 0 \/ d >= Len(nent.tristrip_data) * size THEN NoDescriptor
        ELSE IF d % size = 0 THEN nent.tristrip_data[(d \div size) + 1]
        ELSE StraddledDescriptor

\* lines 136-148 with the winding never reversed
FaceNeverReversed(I, idx, local, offset) ==
    <<offset + I[idx + 1], offset + I[idx + 2], offset + I[idx + 3]>>

\* lines 136-148: the triangle pushed for loop value idx (a 0-based position
\* of the index buffer I), local being index_offset_local
Face(I, idx, local, offset) ==
    IF (idx - local) % 2 = 0
    THEN <<offset + I[idx + 1], offset + I[idx + 2], offset + I[idx + 3]>>
    ELSE <<offset + I[idx + 3], offset + I[idx + 2], offset + I[idx + 1]>>

\* a cursor that skips the two indices closing a strip as well
AdvancePastStrip(local, tricount) == local + tricount + 2

\* line 151
AdvanceLocal(local, tricount) == local + tricount

\* an offset that is never refreshed
IndexOffsetStale(vd) == 0

\* line 154
IndexOffsetAfter(vd) == Len(vd)

\* a writer that drops a face only when its first two indices are equal
ObjFacesFirstPairOnly(fs_) ==
    LET keep(t) == t[1] # t[2]
        kept == SelectSeq(fs_, keep)
    IN  [k \in 1..Len(kept) |-> <<kept[k][1] + 1, kept[k][2] + 1, kept[k][3] + 1>>]

\* lines 165-178: the faces written to the .obj, degenerates dropped
ObjFaces(fs_) ==
    LET keep(t) == ~(t[1] = t[2] \/ t[2] = t[3] \/ t[3] = t[1])
        kept == SelectSeq(fs_, keep)
    IN  [k \in 1..Len(kept) |-> <<kept[k][1] + 1, kept[k][2] + 1, kept[k][3] + 1>>]

Return(value) ==
    /\ pc' = "returned"
    /\ result' = value

entLocals == <<nents, ci, vertex_data, faces, index_offset, indices, tristrips,
               tristrip_reads, si, index_offset_local, fi, index_reads>>

\* lines 34-40: open the file, read the magic byte, seek back to 0
OpenAndProbe ==
    /\ pc = "open"
    /\ IF file.byte0 < 0
       THEN /\ Panic("read_ne")
            /\ UNCHANGED endian
       ELSE /\ endian' = ProbeEndian(file.byte0)
            /\ pc' = "entity_header"
            /\ UNCHANGED panic
    /\ pos' = SeekStart(0)
    /\ UNCHANGED <<header, file, platform, fs, result, eidx, entLocals>>
    /\ UNCHANGED <<mapVars, meshVars, guiVars>>

\* lines 42-44
ReadEntityHeader ==
    /\ pc = "entity_header"
    /\ IF ~file.header.decodable
       THEN /\ Panic("header")
            /\ UNCHANGED <<header, pos>>
       ELSE /\ header' = [version |-> file.header.version,
                          entity_list |-> file.header.entity_list]
            /\ pos' = pos + 1
            /\ pc' = "platform"
            /\ UNCHANGED panic
    /\ UNCHANGED <<endian, file, platform, fs, result, eidx, entLocals>>
    /\ UNCHANGED <<mapVars, meshVars, guiVars>>

\* lines 46-53
PlatformGate ==
    /\ pc = "platform"
    /\ IF platform = "undetected"
       THEN /\ Panic("platform")
            /\ UNCHANGED result
       ELSE IF platform # "Pc" /\ platform # "Xbox"
       THEN /\ Return("Err: unsupported platform")
            /\ UNCHANGED panic
       ELSE /\ pc' = "mkdir"
            /\ UNCHANGED <<panic, result>>
    /\ UNCHANGED <<pos, endian, header, file, platform, fs, eidx, entLocals>>
    /\ UNCHANGED <<mapVars, meshVars, guiVars>>

\* line 69
CreateOutputDir ==
    /\ pc = "mkdir"
    /\ fs' = [fs EXCEPT !.dir = TRUE]
    /\ eidx' = 1
    /\ pc' = "entities"
    /\ UNCHANGED <<pos, panic, endian, header, file, platform, result, entLocals>>
    /\ UNCHANGED <<mapVars, meshVars, guiVars>>

\* lines 77-87: whether one of the unwrapped pointers is null
ChildListPanics(ent) ==
    IF ent.object_type = NormalObjectType
    THEN ent.normal_entity = None
    ELSE \/ ent.split_entity = None
         \/ \E k \in 1..Len(ent.split_entity[1].entities) :
                ent.split_entity[1].entities[k].normal_entity = None

\* lines 77-87: the child list `nents`
ChildList(ent) ==
    IF ent.object_type = NormalObjectType
    THEN <<ent.normal_entity[1]>>
    ELSE [k \in 1..Len(ent.split_entity[1].entities) |->
             ent.split_entity[1].entities[k].normal_entity[1]]

\* lines 70-91: the head of `for e in header.entity_list.data`, and line 184
NextEntity ==
    /\ pc = "entities"
    /\ IF eidx > Len(header.entity_list)
       THEN /\ Return("Ok")
            /\ UNCHANGED <<pos, panic, nents, ci, vertex_data, faces, index_offset>>
       ELSE LET e == header.entity_list[eidx]
                ent == ReadAt(file, SeekStart(e.address))
            IN  /\ pos' = SeekStart(e.address) + 1
                /\ IF ent.kind # "base_entity"
                   THEN /\ Return("Err: Failed to read entity")
                        /\ UNCHANGED <<panic, nents, ci, vertex_data, faces,
                                       index_offset>>
                   ELSE IF ChildListPanics(ent)
                   THEN /\ Panic("unwrap")
                        /\ UNCHANGED <<result, nents, ci, vertex_data, faces,
                                       index_offset>>
                   ELSE /\ nents' = ChildList(ent)
                        /\ vertex_data' = <<>>
                        /\ faces' = <<>>
                        /\ index_offset' = 0
                        /\ ci' = 1
                        /\ pc' = "children"
                        /\ UNCHANGED <<panic, result>>
    /\ UNCHANGED <<endian, header, file, platform, fs, eidx, indices, tristrips,
                   tristrip_reads, si, index_offset_local, fi, index_reads>>
    /\ UNCHANGED <<mapVars, meshVars, guiVars>>

\* the child's buffers as lines 93-126 leave them
childBuffers == <<vertex_data, indices, tristrips, tristrip_reads, si,
                  index_offset_local, index_reads>>

\* lines 93-128: the head of `for nent in nents`: the child's vertices,
\* indices and tristrips are read
ReadChild ==
    /\ pc = "children"
    /\ IF ci > Len(nents)
       THEN /\ pc' = "write"
            /\ UNCHANGED <<panic, result, childBuffers>>
       ELSE LET nent == nents[ci]
                offsets == [k \in 1..nent.tristrip_count |->
                               TristripOffset(header.version, nent.tristrip_offset,
                                              k - 1)]
                read == [k \in 1..nent.tristrip_count |->
                            DescriptorAt(header.version, nent, offsets[k])]
            IN  IF nent.vertex_count > Len(nent.vertex_data)
                THEN /\ Return("Err: vertex read")
                     /\ UNCHANGED <<panic, childBuffers>>
                ELSE IF nent.index_count > Len(nent.index_data)
                THEN /\ Panic("index read")
                     /\ UNCHANGED <<result, childBuffers>>
                ELSE IF \E k \in 1..nent.tristrip_count : read[k] = NoDescriptor
                THEN /\ Return("Err: tristrip read")
                     /\ UNCHANGED <<panic, childBuffers>>
                ELSE /\ vertex_data' = vertex_data \o
                            [k \in 1..nent.vertex_count |->
                                ReadVertex(header.version, nent.vertex_data[k])]
                     /\ indices' = SubSeq(nent.index_data, 1, nent.index_count)
                     /\ tristrips' = read
                     /\ tristrip_reads' = offsets
                     /\ index_offset_local' = 0
                     /\ index_reads' = {}
                     /\ si' = 1
                     /\ pc' = "strips"
                     /\ UNCHANGED <<panic, result>>
    /\ UNCHANGED <<pos, endian, header, file, platform, fs, eidx, nents, ci,
                   faces, index_offset, fi>>
    /\ UNCHANGED <<mapVars, meshVars, guiVars>>

\* lines 129-135 and 154: the head of `for (tricount, _texture) in tristrips`
NextStrip ==
    /\ pc = "strips"
    /\ IF si > Len(tristrips)
       THEN /\ index_offset' = IndexOffsetAfter(vertex_data)
            /\ ci' = ci + 1
            /\ pc' = "children"
            /\ UNCHANGED <<si, fi>>
       ELSE IF tristrips[si][1] < 2
       THEN /\ si' = si + 1
            /\ UNCHANGED <<pc, index_offset, ci, fi>>
       ELSE /\ fi' = index_offset_local
            /\ pc' = "faces"
            /\ UNCHANGED <<index_offset, ci, si>>
    /\ UNCHANGED <<pos, panic, endian, header, file, platform, fs, result, eidx,
                   nents, vertex_data, faces, indices, tristrips, tristrip_reads,
                   index_offset_local, index_reads>>
    /\ UNCHANGED <<mapVars, meshVars, guiVars>>

\* lines 135-151: one iteration of the loop over i, or its end
EmitFace ==
    /\ pc = "faces"
    /\ LET tricount == tristrips[si][1]
       IN  IF fi >= index_offset_local + tricount
           THEN /\ index_offset_local' = AdvanceLocal(index_offset_local, tricount)
                /\ si' = si + 1
                /\ pc' = "strips"
                /\ UNCHANGED <<panic, faces, fi, index_reads>>
           ELSE IF fi + 2 >= Len(indices)
           THEN /\ Panic("indices[i]")
                /\ UNCHANGED <<faces, fi, index_reads, index_offset_local, si>>
           ELSE /\ faces' = Append(faces,
                                   Face(indices, fi, index_offset_local, index_offset))
                /\ index_reads' = index_reads \cup {fi, fi + 1, fi + 2}
                /\ fi' = fi + 1
                /\ UNCHANGED <<pc, panic, index_offset_local, si>>
    /\ UNCHANGED <<pos, endian, header, file, platform, fs, result, eidx, nents,
                   ci, vertex_data, index_offset, indices, tristrips, tristrip_reads>>
    /\ UNCHANGED <<mapVars, meshVars, guiVars>>

\* lines 157-181: the .obj of the entity is formatted and written
WriteObj ==
    /\ pc = "write"
    /\ fs' = [fs EXCEPT !.files = Append(@,
                 [name |-> header.entity_list[eidx].hashcode,
                  v |-> vertex_data,
                  f |-> ObjFaces(faces)])]
    /\ eidx' = eidx + 1
    /\ pc' = "entities"
    /\ UNCHANGED <<pos, panic, endian, header, file, platform, result, entLocals>>
    /\ UNCHANGED <<mapVars, meshVars, guiVars>>

\* the state in which execute_command is entered
StartEntities ==
    /\ pos = 0
    /\ pc = "open"
    /\ panic = ""
    /\ endian = "unset"
    /\ header = "unset"
    /\ fs = [dir |-> FALSE, files |-> <<>>]
    /\ result = ""
    /\ eidx = 0
    /\ nents = <<>>
    /\ ci = 0
    /\ vertex_data = <<>>
    /\ faces = <<>>
    /\ index_offset = 0
    /\ indices = <<>>
    /\ tristrips = <<>>
    /\ tristrip_reads = <<>>
    /\ si = 0
    /\ index_offset_local = 0
    /\ fi = 0
    /\ index_reads = {}
    /\ IdleMaps
    /\ IdleMesh
    /\ IdleGui

InitEntities ==
    /\ \/ /\ \/ IsStripFile(file)
             \/ IsIndexFile(file)
             \/ IsSplitFile(file)
             \/ IsRaggedFile(file)
          /\ platform = "Pc"
       \/ /\ IsSectionFile(file)
          /\ platform \in Platforms \cup {"undetected"}
    /\ StartEntities

NextEntities ==
    \/ OpenAndProbe
    \/ ReadEntityHeader
    \/ PlatformGate
    \/ CreateOutputDir
    \/ NextEntity
    \/ ReadChild
    \/ NextStrip
    \/ EmitFace
    \/ WriteObj

SpecEntities == InitEntities /\ [][NextEntities]_vars

-----------------------------------------------------------------------------
(* Both decoders on the sources that vary at the header level: the magic    *)
(* byte, an empty source, the header, the records                           *)

InitProbe ==
    \/ /\ IsHeaderFile(reader)
       /\ StartMaps
    \/ /\ IsSectionFile(file)
       /\ platform \in Platforms \cup {"undetected"}
       /\ StartEntities

NextProbe ==
    \/ NextMaps
    \/ NextEntities

SpecProbe == InitProbe /\ [][NextProbe]_vars

-----------------------------------------------------------------------------
(* EntityRenderer, gui/src/render/entity.rs: load_mesh and draw_both *)

\* a TriStrip of the mesh; start_index tells the strips of a mesh apart
TriStrip(k, t, flags, tex) ==
    [start_index |-> k - 1,
     tri_count |-> 2,
     texture_index |-> tex,
     transparency |-> t,
     flags |-> flags]

MeshStrip(k, t) == TriStrip(k, t, 0, 0)

\* a RenderableTexture: its flags and the number of its frames
Texture(flags, frames) == [flags |-> flags, frames |-> frames]

\* a table with a plain texture, two cutout textures (bits 29 and 30), two
\* cubemaps (bits 16 and 17) and a texture without frames
TextureTable ==
    <<Texture(0, 1), Texture(536870912, 1), Texture(1073741824, 2),
      Texture(65536, 1), Texture(131072, 1), Texture(0, 0)>>

\* the strip flags the renderer looks at: 0x1, 0x8, 0x10, 0x40
StripFlags == {a + b + c + d : a \in {0, 1}, b \in {0, 8}, c \in {0, 16}, d \in {0, 64}}

\* an insertion that lands before the strips of equal transparency
InsertBeforeEqual(sorted, x) ==
    LET n == Cardinality({k \in 1..Len(sorted) :
                             sorted[k].transparency < x.transparency})
    IN  SubSeq(sorted, 1, n) \o <<x>> \o SubSeq(sorted, n + 1, Len(sorted))

\* x, which followed the strips of `sorted` in the input, lands after those
\* that do not compare greater: a.transparency.cmp(&b.transparency)
InsertByTransparency(sorted, x) ==
    LET n == Cardinality({k \in 1..Len(sorted) :
                             sorted[k].transparency <= x.transparency})
    IN  SubSeq(sorted, 1, n) \o <<x>> \o SubSeq(sorted, n + 1, Len(sorted))

RECURSIVE SortByTransparency(_)
\* line 104: slice::sort_by, a stable sort
SortByTransparency(s) ==
    IF s = <<>> THEN <<>>
    ELSE InsertByTransparency(SortByTransparency(SubSeq(s, 1, Len(s) - 1)),
                              s[Len(s)])

\* flags & bit != 0, bit a power of two
Bit(flags, bit) == (flags \div bit) % 2 = 1

\* a renderer that hides nothing
StripHiddenNever(t) == FALSE

\* lines 261-263: `if (t.flags & 0x10) != 0 { return; }`
StripHidden(t) == Bit(t.flags, 16)

\* a match with the arms for 1 and 2 exchanged
SelectBlendSwapped(transparency) ==
    CASE transparency % 256 = 2 -> "Additive"
      [] transparency % 256 = 1 -> "ReverseSubtract"
      [] OTHER -> "None"

\* lines 265-269: `match t.transparency & 0xff`
SelectBlend(transparency) ==
    CASE transparency % 256 = 2 -> "ReverseSubtract"
      [] transparency % 256 = 1 -> "Additive"
      [] OTHER -> "None"

\* lines 271-273
FlagBlend(t, mode) ==
    IF (Bit(t.flags, 8) \/ Bit(t.flags, 1)) /\ mode = "None" THEN "Blend" ELSE mode

\* a renderer that culls double-sided strips like the others
CullFaceIgnoresDoubleSided(t, plat) ==
    IF plat \in {"GameCube", "Wii", "Ps2"} THEN "disabled" ELSE "enabled"

\* lines 275-287: the state CULL_FACE is put in
CullFace(t, plat) ==
    IF Bit(t.flags, 64) THEN "disabled"
    ELSE IF plat \in {"GameCube", "Wii", "Ps2"} THEN "disabled"
    ELSE "enabled"

\* line 292: `(t.texture_index as usize) < textures.len()`; a negative i32
\* becomes a huge usize
TextureInTable(t, texs) == t.texture_index >= 0 /\ t.texture_index < Len(texs)

\* line 295: `(tex.flags & 0x30000) != 0`
IsCubemap(tex) == (tex.flags \div 65536) % 4 # 0

\* line 312: `(((tex.flags >> 0x18) >> 5) & 0b11) != 0`
IsCutout(tex) == (tex.flags \div 536870912) % 4 # 0

\* lines 312-314
TextureBlend(t, tex, mode) ==
    IF IsCutout(tex) /\ ~Bit(t.flags, 8) THEN "Cutout" ELSE mode

\* lines 325-342: set_blending_mode, then draw_elements
DrawElements(t, g, ds, mode) ==
    LET g2 == [g EXCEPT !.blend = mode]
    IN  [gl |-> g2,
         draws |-> Append(ds, [strip |-> t,
                               count |-> t.tri_count + 2,
                               offset |-> t.start_index * 4,
                               cull_face |-> g2.cull_face,
                               texture |-> g2.texture,
                               blend |-> g2.blend,
                               depth_mask |-> g2.depth_mask])]

\* lines 235-343: draw_strip for strip t on the GL state g; the GL state and
\* the draw calls it leaves
DrawStrip(t, g, ds, plat, texs) ==
    IF StripHidden(t) THEN [gl |-> g, draws |-> ds]
    ELSE LET mode == FlagBlend(t, SelectBlend(t.transparency))
             g1 == [g EXCEPT !.cull_face = CullFace(t, plat)]
         IN  IF TextureInTable(t, texs)
             THEN LET tex == texs[t.texture_index + 1]
                  IN  IF IsCubemap(tex) THEN [gl |-> g1, draws |-> ds]
                      ELSE DrawElements(t,
                               [g1 EXCEPT !.texture =
                                   IF tex.frames > 0 THEN Some(t.texture_index)
                                   ELSE None],
                               ds, TextureBlend(t, tex, mode))
             ELSE DrawElements(t, [g1 EXCEPT !.texture = None], ds, mode)

\* an opaque pass that looks at the transparency alone
OpaqueFilterByteOnly(t) == t.transparency = 0

\* line 204
OpaqueFilter(t) == t.transparency = 0 /\ ~Bit(t.flags, 8)

\* line 228
TransparentFilter(t) == t.transparency # 0 \/ Bit(t.flags, 8)

\* lines 103-106
LoadMesh ==
    /\ pc = "load_mesh"
    /\ mesh' = Some(SortByTransparency(strips))
    /\ pc' = "loaded"
    /\ UNCHANGED <<pos, panic, endian, header, strips, renderer_platform,
                   textures, gl, draws, strip_calls, sidx>>
    /\ UNCHANGED <<mapVars, entVars, guiVars>>

\* lines 182 and 197-200: draw_both enters draw_opaque
BeginDrawOpaque ==
    /\ pc = "loaded"
    /\ IF mesh # None
       THEN /\ sidx' = 1
            /\ pc' = "draw_opaque"
       ELSE /\ pc' = "depth_mask"
            /\ UNCHANGED sidx
    /\ UNCHANGED <<pos, panic, endian, header, strips, mesh, renderer_platform,
                   textures, gl, draws, strip_calls>>
    /\ UNCHANGED <<mapVars, entVars, guiVars>>

\* lines 202-207: one iteration of the filtered loop of draw_opaque
DrawOpaqueStrip ==
    /\ pc = "draw_opaque"
    /\ IF sidx > Len(mesh[1])
       THEN /\ pc' = "depth_mask"
            /\ UNCHANGED <<gl, draws, strip_calls, sidx>>
       ELSE LET t == mesh[1][sidx]
                after == DrawStrip(t, gl, draws, renderer_platform, textures)
            IN  /\ IF OpaqueFilter(t)
                   THEN /\ gl' = after.gl
                        /\ draws' = after.draws
                        /\ strip_calls' = Append(strip_calls, <<"opaque", t>>)
                   ELSE UNCHANGED <<gl, draws, strip_calls>>
                /\ sidx' = sidx + 1
                /\ UNCHANGED pc
    /\ UNCHANGED <<pos, panic, endian, header, strips, mesh, renderer_platform,
                   textures>>
    /\ UNCHANGED <<mapVars, entVars, guiVars>>

\* lines 183 and 221-224: gl.depth_mask(false), draw_both enters
\* draw_transparent
DepthMaskOff ==
    /\ pc = "depth_mask"
    /\ gl' = [gl EXCEPT !.depth_mask = FALSE]
    /\ IF mesh # None
       THEN /\ sidx' = 1
            /\ pc' = "draw_transparent"
       ELSE /\ pc' = "drawn"
            /\ UNCHANGED sidx
    /\ UNCHANGED <<pos, panic, endian, header, strips, mesh, renderer_platform,
                   textures, draws, strip_calls>>
    /\ UNCHANGED <<mapVars, entVars, guiVars>>

\* lines 226-231: one iteration of the filtered loop of draw_transparent
DrawTransparentStrip ==
    /\ pc = "draw_transparent"
    /\ IF sidx > Len(mesh[1])
       THEN /\ pc' = "drawn"
            /\ UNCHANGED <<gl, draws, strip_calls, sidx>>
       ELSE LET t == mesh[1][sidx]
                after == DrawStrip(t, gl, draws, renderer_platform, textures)
            IN  /\ IF TransparentFilter(t)
                   THEN /\ gl' = after.gl
                        /\ draws' = after.draws
                        /\ strip_calls' = Append(strip_calls, <<"transparent", t>>)
                   ELSE UNCHANGED <<gl, draws, strip_calls>>
                /\ sidx' = sidx + 1
                /\ UNCHANGED pc
    /\ UNCHANGED <<pos, panic, endian, header, strips, mesh, renderer_platform,
                   textures>>
    /\ UNCHANGED <<mapVars, entVars, guiVars>>

\* meshes whose strips differ in transparency alone
IsSortMesh(m) ==
    \E ts \in SeqsUpTo(0..MaxTransparency, MaxMeshStrips) :
        m = [k \in 1..Len(ts) |-> MeshStrip(k, ts[k])]

\* meshes of one strip: any transparency (3 and 257 among them), any flags,
\* any texture of the table or none
IsStripMesh(m) ==
    \E t \in (0..(MaxTransparency + 1)) \cup {257}, f \in StripFlags,
       x \in -1..Len(TextureTable) :
        m = <<TriStrip(1, t, f, x)>>

\* meshes of several strips, some alpha-blended (0x8), some hidden (0x10),
\* some double-sided (0x40)
IsFlagMesh(m) ==
    \E ks \in SeqsUpTo({0, 1} \X {0, 8, 16, 64, 80}, MaxDrawStrips) :
        m = [k \in 1..Len(ks) |-> TriStrip(k, ks[k][1], ks[k][2], 0)]

InitMesh ==
    /\ \/ /\ IsSortMesh(strips)
          /\ renderer_platform = "Pc"
       \/ /\ IsStripMesh(strips) \/ IsFlagMesh(strips)
          /\ renderer_platform \in Platforms
    /\ mesh = None
    /\ textures = TextureTable
    /\ \E c \in {"enabled", "disabled"} :
           gl = [cull_face |-> c, texture |-> None, blend |-> "unset",
                 depth_mask |-> TRUE]
    /\ draws = <<>>
    /\ strip_calls = <<>>
    /\ sidx = 0
    /\ pos = 0
    /\ pc = "load_mesh"
    /\ panic = ""
    /\ endian = "unset"
    /\ header = "unset"
    /\ IdleMaps
    /\ IdleEntities
    /\ IdleGui

NextMesh ==
    \/ LoadMesh
    \/ BeginDrawOpaque
    \/ DrawOpaqueStrip
    \/ DepthMaskOff
    \/ DrawTransparentStrip

SpecMesh == InitMesh /\ [][NextMesh]_vars

-----------------------------------------------------------------------------
(* MapFrame, gui/src/map_frame.rs: show, show_canvas and the paint callback *)

Threads == {"gui", "paint1", "paint2"}

Painters == {"paint1", "paint2"}

Free == "free"

\* the Mutex around the BaseViewer
Viewer == <<"viewer", 0>>

RefRenderer(k) == <<"ref", k>>

PlacementRenderer(k) == <<"placement", k>>

\* the text of the sky_ent field that is no hexadecimal number
Unparsable == -1

\* unwrap_or(u32::MAX): a hashcode no renderer of the explored scenes has
NoSkyEnt == 2147483647

ParseSkyEnt(text) == IF text = Unparsable THEN NoSkyEnt ELSE text

\* MapFrame::new and the user's edits: r ref renderers, p placement
\* renderers of the hashcodes 1..p, the text of the sky_ent field (empty
\* after new), shown with a map of the given placements
MapFrameOf(r, p, text, placements) ==
    [ref_renderers |-> [k \in 1..r |-> RefRenderer(k)],
     placement_renderers |->
         [k \in 1..p |-> [hashcode |-> k, renderer |-> PlacementRenderer(k)]],
     sky_ent |-> text,
     placements |-> placements]

Mutexes(mf) ==
    {Viewer} \cup Range(mf.ref_renderers)
             \cup {mf.placement_renderers[k].renderer :
                       k \in 1..Len(mf.placement_renderers)}

\* iter().find(|(hc, _, _)| *hc == hashcode): the first position, 0 for None
Find(placement_renderers, hashcode) ==
    LET hits == {k \in 1..Len(placement_renderers) :
                     placement_renderers[k].hashcode = hashcode}
    IN  IF hits = {} THEN 0 ELSE CHOOSE k \in hits : \A j \in hits : k <= j

PaintStagesTransparentFirst ==
    <<"start_render", "sky", "refs_transparent", "placements_transparent",
      "depth_mask", "refs_opaque", "placements_opaque">>

\* the statements of the paint callback in the order of its body
PaintStages ==
    <<"start_render", "sky", "refs_opaque", "placements_opaque",
      "depth_mask", "refs_transparent", "placements_transparent">>

Stage(t) == IF tloc[t].stage = 0 THEN "none" ELSE PaintStages[tloc[t].stage]

RefStages == {"refs_opaque", "refs_transparent"}

PlacementStages == {"placements_opaque", "placements_transparent"}

DrawCall(stage) ==
    IF stage \in {"refs_opaque", "placements_opaque"} THEN "draw_opaque"
    ELSE "draw_transparent"

\* the renderer of the placement the placement loop stands at, 0 without one
PlacementHit(t) ==
    IF tloc[t].k <= Len(map_frame.placements)
    THEN Find(map_frame.placement_renderers, map_frame.placements[tloc[t].k])
    ELSE 0

\* the mutexes the next statement of thread t locks (none, or one)
NextLock(t) ==
    IF t = "gui"
    THEN IF \/ tpc[t] = "show" /\ shown < MaxFrames
            \/ tpc[t] = "show_canvas"
         THEN {Viewer} ELSE {}
    ELSE CASE tpc[t] = "enter" /\ Stage(t) = "start_render" -> {Viewer}
           [] tpc[t] = "sky_found" ->
                  {PlacementRenderer(
                       Find(map_frame.placement_renderers, tloc[t].sky_ent))}
           [] tpc[t] = "sky_locked" -> {Viewer}
           [] tpc[t] = "enter" /\ Stage(t) \in RefStages
                  /\ tloc[t].k <= Len(map_frame.ref_renderers) ->
                  {map_frame.ref_renderers[tloc[t].k]}
           [] tpc[t] = "enter" /\ Stage(t) \in PlacementStages
                  /\ PlacementHit(t) # 0 ->
                  {PlacementRenderer(PlacementHit(t))}
           [] tpc[t] = "renderer_locked" -> {Viewer}
           [] OTHER -> {}

\* Mutex::lock returns once the mutex is free
Acquire(h, t, m) == [h EXCEPT ![m] = t]

ReleaseNothing(h, t, ms) == h

\* the guards of the mutexes ms are dropped
Release(h, t, ms) ==
    [m \in DOMAIN h |-> IF m \in ms /\ h[m] = t THEN Free ELSE h[m]]

\* render::start_render: gl.depth_mask(true)
start_render(d) == TRUE

\* BaseViewer::start_render, which runs render::start_render
BaseViewerStartRender(d) == start_render(d)

GlCall(t, call, renderer, d) ==
    [call |-> call, stage |-> Stage(t), renderer |-> renderer,
     depth_mask |-> d]

notPaint == <<sharedVars, mapVars, entVars, meshVars, appVars>>

\* show, line 79: self.viewer.lock()
ShowLockViewer ==
    /\ tpc["gui"] = "show"
    /\ shown < MaxFrames
    /\ scheduling.sequential =>
           callbacks = <<>> /\ \A p \in Painters : tpc[p] = "idle"
    /\ holder[Viewer] = Free
    /\ holder' = Acquire(holder, "gui", Viewer)
    /\ tpc' = [tpc EXCEPT !["gui"] = "toolbar"]
    /\ UNCHANGED <<map_frame, scheduling, tloc, depth_mask, paint_log,
                   callbacks, shown>>
    /\ UNCHANGED notPaint

\* show, line 79: show_toolbar, the guard dropped with the statement
ShowToolbar ==
    /\ tpc["gui"] = "toolbar"
    /\ holder' = Release(holder, "gui", {Viewer})
    /\ tpc' = [tpc EXCEPT !["gui"] = "sky_ent"]
    /\ UNCHANGED <<map_frame, scheduling, tloc, depth_mask, paint_log,
                   callbacks, shown>>
    /\ UNCHANGED notPaint

\* show, lines 83-88: the text field bound to self.sky_ent
EditSkyEnt ==
    /\ tpc["gui"] = "sky_ent"
    /\ \E text \in {Unparsable} \cup 1..(Len(map_frame.placement_renderers) + 1) :
           map_frame' = [map_frame EXCEPT !.sky_ent = text]
    /\ tpc' = [tpc EXCEPT !["gui"] = "show_canvas"]
    /\ UNCHANGED <<scheduling, tloc, holder, depth_mask, paint_log, callbacks,
                   shown>>
    /\ UNCHANGED notPaint

\* show_canvas, line 122: viewer.lock()
CanvasLockViewer ==
    /\ tpc["gui"] = "show_canvas"
    /\ holder[Viewer] = Free
    /\ holder' = Acquire(holder, "gui", Viewer)
    /\ tpc' = [tpc EXCEPT !["gui"] = "canvas_locked"]
    /\ UNCHANGED <<map_frame, scheduling, tloc, depth_mask, paint_log,
                   callbacks, shown>>
    /\ UNCHANGED notPaint

\* show_canvas, lines 123-133: the viewer is updated and the camera position
\* read, the guard dropped at the end of the block
CanvasUpdate ==
    /\ tpc["gui"] = "canvas_locked"
    /\ holder' = Release(holder, "gui", {Viewer})
    /\ tpc' = [tpc EXCEPT !["gui"] = "add_callback"]
    /\ UNCHANGED <<map_frame, scheduling, tloc, depth_mask, paint_log,
                   callbacks, shown>>
    /\ UNCHANGED notPaint

\* show_canvas, lines 140-253: the callback captures the parsed sky_ent and
\* is added to the painter
AddCallback ==
    /\ tpc["gui"] = "add_callback"
    /\ callbacks' = Append(callbacks,
                           [sky_ent |-> ParseSkyEnt(map_frame.sky_ent)])
    /\ shown' = shown + 1
    /\ tpc' = [tpc EXCEPT !["gui"] = "show"]
    /\ UNCHANGED <<map_frame, scheduling, tloc, holder, depth_mask, paint_log>>
    /\ UNCHANGED notPaint

\* the painter runs the oldest callback on thread t
BeginPaint(t) ==
    /\ t \in scheduling.painters
    /\ tpc[t] = "idle"
    /\ callbacks # <<>>
    /\ scheduling.sequential => tpc["gui"] = "show"
    /\ tloc' = [tloc EXCEPT ![t] = [stage |-> 1, k |-> 1,
                                    sky_ent |-> Head(callbacks).sky_ent]]
    /\ callbacks' = Tail(callbacks)
    /\ tpc' = [tpc EXCEPT ![t] = "enter"]
    /\ paint_log' = [paint_log EXCEPT ![t] = <<>>]
    /\ UNCHANGED <<map_frame, scheduling, holder, depth_mask, shown>>
    /\ UNCHANGED notPaint

NextStage(t) == [tloc[t] EXCEPT !.stage = @ + 1, !.k = 1]

\* line 145-146: viewer.lock()
StartRenderLockViewer(t) ==
    /\ tpc[t] = "enter"
    /\ Stage(t) = "start_render"
    /\ holder[Viewer] = Free
    /\ holder' = Acquire(holder, t, Viewer)
    /\ tpc' = [tpc EXCEPT ![t] = "viewer_locked"]
    /\ UNCHANGED <<map_frame, scheduling, tloc, depth_mask, paint_log,
                   callbacks, shown>>
    /\ UNCHANGED notPaint

\* lines 147-148: start_render on the locked viewer, the guard dropped with
\* the statement
StartRender(t) ==
    /\ tpc[t] = "viewer_locked"
    /\ depth_mask' = BaseViewerStartRender(depth_mask)
    /\ paint_log' = [paint_log EXCEPT ![t] =
           Append(@, GlCall(t, "start_render", Viewer, depth_mask'))]
    /\ holder' = Release(holder, t, {Viewer})
    /\ tloc' = [tloc EXCEPT ![t] = NextStage(t)]
    /\ tpc' = [tpc EXCEPT ![t] = "enter"]
    /\ UNCHANGED <<map_frame, scheduling, callbacks, shown>>
    /\ UNCHANGED notPaint

\* lines 150-153: the sky entity is looked up; found, depth writes go off
SkyFind(t) ==
    /\ tpc[t] = "enter"
    /\ Stage(t) = "sky"
    /\ IF Find(map_frame.placement_renderers, tloc[t].sky_ent) = 0
       THEN /\ tloc' = [tloc EXCEPT ![t] = NextStage(t)]
            /\ UNCHANGED <<tpc, depth_mask, paint_log>>
       ELSE /\ depth_mask' = FALSE
            /\ paint_log' = [paint_log EXCEPT ![t] =
                   Append(@, GlCall(t, "depth_mask", Viewer, FALSE))]
            /\ tpc' = [tpc EXCEPT ![t] = "sky_found"]
            /\ UNCHANGED tloc
    /\ UNCHANGED <<map_frame, scheduling, holder, callbacks, shown>>
    /\ UNCHANGED notPaint

\* line 155: sky_renderer.lock()
SkyLockRenderer(t) ==
    /\ tpc[t] = "sky_found"
    /\ \E m \in NextLock(t) :
           /\ holder[m] = Free
           /\ holder' = Acquire(holder, t, m)
    /\ tpc' = [tpc EXCEPT ![t] = "sky_locked"]
    /\ UNCHANGED <<map_frame, scheduling, tloc, depth_mask, paint_log,
                   callbacks, shown>>
    /\ UNCHANGED notPaint

\* lines 155-163: viewer.lock() for the uniforms, draw_both (entity.rs
\* 172-185: opaque pass, depth_mask(false), transparent pass), both guards
\* dropped with the statement
SkyDrawBoth(t) ==
    /\ tpc[t] = "sky_locked"
    /\ holder[Viewer] = Free
    /\ LET r == PlacementRenderer(
                    Find(map_frame.placement_renderers, tloc[t].sky_ent))
       IN  /\ paint_log' = [paint_log EXCEPT ![t] =
                  @ \o <<GlCall(t, "draw_opaque", r, depth_mask),
                         GlCall(t, "depth_mask", Viewer, FALSE),
                         GlCall(t, "draw_transparent", r, FALSE)>>]
           /\ holder' = Release(Acquire(holder, t, Viewer), t, {Viewer, r})
    /\ depth_mask' = FALSE
    /\ tpc' = [tpc EXCEPT ![t] = "sky_drawn"]
    /\ UNCHANGED <<map_frame, scheduling, tloc, callbacks, shown>>
    /\ UNCHANGED notPaint

\* line 165: depth_mask(true)
SkyDepthMaskOn(t) ==
    /\ tpc[t] = "sky_drawn"
    /\ depth_mask' = TRUE
    /\ paint_log' = [paint_log EXCEPT ![t] =
           Append(@, GlCall(t, "depth_mask", Viewer, TRUE))]
    /\ tloc' = [tloc EXCEPT ![t] = NextStage(t)]
    /\ tpc' = [tpc EXCEPT ![t] = "enter"]
    /\ UNCHANGED <<map_frame, scheduling, holder, callbacks, shown>>
    /\ UNCHANGED notPaint

\* lines 169-170 and 210-211: `for r in &renderers`, r.lock()
RefLock(t) ==
    /\ tpc[t] = "enter"
    /\ Stage(t) \in RefStages
    /\ \E m \in NextLock(t) :
           /\ holder[m] = Free
           /\ holder' = Acquire(holder, t, m)
    /\ tpc' = [tpc EXCEPT ![t] = "renderer_locked"]
    /\ UNCHANGED <<map_frame, scheduling, tloc, depth_mask, paint_log,
                   callbacks, shown>>
    /\ UNCHANGED notPaint

\* lines 171-179 and 212-220, 195-204 and 236-245: viewer.lock() for the
\* uniforms, the draw call of the pass, both guards dropped at the end of
\* the loop body
DrawPass(t) ==
    /\ tpc[t] = "renderer_locked"
    /\ holder[Viewer] = Free
    /\ LET r == CHOOSE m \in DOMAIN holder : m # Viewer /\ holder[m] = t
       IN  /\ paint_log' = [paint_log EXCEPT ![t] =
                  Append(@, GlCall(t, DrawCall(Stage(t)), r, depth_mask))]
           /\ holder' = Release(Acquire(holder, t, Viewer), t, {Viewer, r})
    /\ tloc' = [tloc EXCEPT ![t].k = @ + 1]
    /\ tpc' = [tpc EXCEPT ![t] = "enter"]
    /\ UNCHANGED <<map_frame, scheduling, depth_mask, callbacks, shown>>
    /\ UNCHANGED notPaint

\* lines 180 and 221: the loop over the ref renderers ends
RefsDone(t) ==
    /\ tpc[t] = "enter"
    /\ Stage(t) \in RefStages
    /\ tloc[t].k > Len(map_frame.ref_renderers)
    /\ tloc' = [tloc EXCEPT ![t] = NextStage(t)]
    /\ UNCHANGED <<map_frame, scheduling, tpc, holder, depth_mask, paint_log,
                   callbacks, shown>>
    /\ UNCHANGED notPaint

\* lines 182-195 and 223-236: `for p in &map.placements`, the renderer of
\* p.object_ref found, r.lock()
PlacementLock(t) ==
    /\ tpc[t] = "enter"
    /\ Stage(t) \in PlacementStages
    /\ \E m \in NextLock(t) :
           /\ holder[m] = Free
           /\ holder' = Acquire(holder, t, m)
    /\ tpc' = [tpc EXCEPT ![t] = "renderer_locked"]
    /\ UNCHANGED <<map_frame, scheduling, tloc, depth_mask, paint_log,
                   callbacks, shown>>
    /\ UNCHANGED notPaint

\* lines 183-187 and 224-228: no renderer has the placement's object_ref
PlacementSkip(t) ==
    /\ tpc[t] = "enter"
    /\ Stage(t) \in PlacementStages
    /\ tloc[t].k <= Len(map_frame.placements)
    /\ PlacementHit(t) = 0
    /\ tloc' = [tloc EXCEPT ![t].k = @ + 1]
    /\ UNCHANGED <<map_frame, scheduling, tpc, holder, depth_mask, paint_log,
                   callbacks, shown>>
    /\ UNCHANGED notPaint

\* lines 206 and 247-248: the loop over the placements ends; after the last
\* statement the callback returns
PlacementsDone(t) ==
    /\ tpc[t] = "enter"
    /\ Stage(t) \in PlacementStages
    /\ tloc[t].k > Len(map_frame.placements)
    /\ IF tloc[t].stage = Len(PaintStages)
       THEN /\ tloc' = [tloc EXCEPT ![t] = [@ EXCEPT !.stage = 0, !.k = 1]]
            /\ tpc' = [tpc EXCEPT ![t] = "idle"]
       ELSE /\ tloc' = [tloc EXCEPT ![t] = NextStage(t)]
            /\ UNCHANGED tpc
    /\ UNCHANGED <<map_frame, scheduling, holder, depth_mask, paint_log,
                   callbacks, shown>>
    /\ UNCHANGED notPaint

\* line 208: depth_mask(false)
PaintDepthMaskOff(t) ==
    /\ tpc[t] = "enter"
    /\ Stage(t) = "depth_mask"
    /\ depth_mask' = FALSE
    /\ paint_log' = [paint_log EXCEPT ![t] =
           Append(@, GlCall(t, "depth_mask", Viewer, FALSE))]
    /\ tloc' = [tloc EXCEPT ![t] = NextStage(t)]
    /\ UNCHANGED <<map_frame, scheduling, tpc, holder, callbacks, shown>>
    /\ UNCHANGED notPaint

\* the maps shown: any renderers with the placements naming each of them
\* and one more, or the most renderers with any placements
IsScene(mf) ==
    \/ \E r \in 0..MaxRefRenderers, p \in 0..MaxPlacementRenderers :
           \E n \in {0, IF p + 1 < MaxPlacements THEN p + 1 ELSE MaxPlacements} :
               mf = MapFrameOf(r, p, Unparsable, [k \in 1..n |-> p + 2 - k])
    \/ \E placements \in SeqsUpTo(1..(MaxPlacementRenderers + 1), MaxPlacements) :
           mf = MapFrameOf(1, MaxPlacementRenderers, Unparsable, placements)

StartPaint ==
    /\ tpc = [t \in Threads |-> IF t = "gui" THEN "show" ELSE "idle"]
    /\ tloc = [t \in Threads |-> [stage |-> 0, k |-> 1, sky_ent |-> NoSkyEnt]]
    /\ holder = [m \in Mutexes(map_frame) |-> Free]
    /\ depth_mask \in BOOLEAN
    /\ paint_log = [t \in Threads |-> <<>>]
    /\ callbacks = <<>>
    /\ shown = 0
    /\ pos = 0
    /\ pc = "gui"
    /\ panic = ""
    /\ endian = "unset"
    /\ header = "unset"
    /\ IdleMaps
    /\ IdleEntities
    /\ IdleMesh
    /\ IdleApp

\* eframe's frame loop: one thread runs show and then the callback it added
InitPaint ==
    /\ IsScene(map_frame)
    /\ scheduling = [painters |-> {"paint1"}, sequential |-> TRUE]
    /\ StartPaint

\* callbacks run on their own threads at any time after they were added
InitMapView ==
    /\ \E placements \in {<<>>, <<2, 1>>} :
           map_frame = MapFrameOf(1, 1, Unparsable, placements)
    /\ scheduling = [painters |-> Painters, sequential |-> FALSE]
    /\ StartPaint

NextMapFrame ==
    \/ ShowLockViewer
    \/ ShowToolbar
    \/ EditSkyEnt
    \/ CanvasLockViewer
    \/ CanvasUpdate
    \/ AddCallback
    \/ \E t \in Painters : BeginPaint(t)
    \/ \E t \in Painters : StartRenderLockViewer(t)
    \/ \E t \in Painters : StartRender(t)
    \/ \E t \in Painters : SkyFind(t)
    \/ \E t \in Painters : SkyLockRenderer(t)
    \/ \E t \in Painters : SkyDrawBoth(t)
    \/ \E t \in Painters : SkyDepthMaskOn(t)
    \/ \E t \in Painters : RefLock(t)
    \/ \E t \in Painters : DrawPass(t)
    \/ \E t \in Painters : RefsDone(t)
    \/ \E t \in Painters : PlacementLock(t)
    \/ \E t \in Painters : PlacementSkip(t)
    \/ \E t \in Painters : PlacementsDone(t)
    \/ \E t \in Painters : PaintDepthMaskOff(t)

SpecPaint == InitPaint /\ [][NextMapFrame]_vars

SpecMapView == InitMapView /\ [][NextMapFrame]_vars

-----------------------------------------------------------------------------
(* EurochefApp, gui/src/app.rs: the load_input cell between the file-dialog *)
(* threads and update()                                                     *)

\* the paths a file dialog can return
Paths == 1..MaxPaths

TakeKeeps(cell) == [value |-> cell, cell |-> cell]

\* AtomicCell::take: the value is returned, the cell left holding None
Take(cell) == [value |-> cell, cell |-> None]

\* AtomicCell::store
Store(cell, value) == value

notApp == <<sharedVars, mapVars, entVars, meshVars, paintVars>>

\* update, line 90: self.load_input.take()
UpdateTake ==
    /\ app_pc = "idle"
    /\ updates < MaxUpdates
    /\ updates' = updates + 1
    /\ LET taken == Take(load_input)
       IN  /\ load_input' = taken.cell
           /\ app_log' = Append(app_log, <<"take", taken.value>>)
           /\ load_path' = taken.value
           /\ app_pc' = IF taken.value # None THEN "load_file" ELSE "ui"
    /\ UNCHANGED dialogs
    /\ UNCHANGED notApp

\* update, line 91, and load_file, lines 59-80: File::open(path).unwrap()
\* panics on a path that cannot be opened
LoadFile ==
    /\ app_pc = "load_file"
    /\ app_log' = Append(app_log, <<"load_file", load_path>>)
    /\ load_path' = None
    /\ \E opened \in BOOLEAN : app_pc' = IF opened THEN "ui" ELSE "panic"
    /\ UNCHANGED <<load_input, dialogs, updates>>
    /\ UNCHANGED notApp

\* update, lines 104-222: the menu; a click on Open spawns a thread that
\* runs the file dialog
UpdateUi ==
    /\ app_pc = "ui"
    /\ \E clicked \in BOOLEAN :
           dialogs' = IF clicked THEN dialogs + 1 ELSE dialogs
    /\ app_pc' = "idle"
    /\ UNCHANGED <<load_input, load_path, app_log, updates>>
    /\ UNCHANGED notApp

\* lines 114-121: the dialog returns; a picked path is stored
DialogPick ==
    /\ dialogs > 0
    /\ dialogs' = dialogs - 1
    /\ \E picked \in {None} \cup {Some(p) : p \in Paths} :
           IF picked = None
           THEN UNCHANGED <<load_input, app_log>>
           ELSE /\ load_input' = Store(load_input, picked)
                /\ app_log' = Append(app_log, <<"store", picked>>)
    /\ UNCHANGED <<app_pc, load_path, updates>>
    /\ UNCHANGED notApp

\* EurochefApp::new(path), lines 48-57
InitApp ==
    /\ \E path \in {None} \cup {Some(p) : p \in Paths} :
           /\ load_input = Store(None, path)
           /\ app_log = IF path = None THEN <<>> ELSE <<(<<"store", path>>)>>
    /\ app_pc = "idle"
    /\ load_path = None
    /\ dialogs = 0
    /\ updates = 0
    /\ pos = 0
    /\ pc = "app"
    /\ panic = ""
    /\ endian = "unset"
    /\ header = "unset"
    /\ IdleMaps
    /\ IdleEntities
    /\ IdleMesh
    /\ IdlePaint

NextApp ==
    \/ UpdateTake
    \/ LoadFile
    \/ UpdateUi
    \/ DialogPick

SpecApp == InitApp /\ [][NextApp]_vars

-----------------------------------------------------------------------------
(* Properties of read_from_file *)

\* the decoded input record behind the k-th entry of the map list
InputMap(k) == reader.data[reader.header.map_list[k].address]

TriggerIds(tr) == 0..(Len(tr) - 1)

\* the scenario S5 of the specification
S5Links == <<(<<1, 2>>), (<<>>), (<<0>>)>>
S5Incoming == <<(<<2>>), (<<0>>), (<<0>>)>>

LinksOf(tr) == [k \in 1..Len(tr) |-> tr[k].links]
IncomingOf(tr) == [k \in 1..Len(tr) |-> tr[k].incoming_links]

\* C1: in every map read_from_file has pushed, for all trigger indices a and b:
\* b is in triggers[a].incoming_links iff triggers[b].links contains a and
\* a # b; the links [[1,2],[],[0]] give the incoming links [[2],[0],[0]].
C1_BackEdges ==
    \A k \in 1..Len(maps) :
        LET tr == maps[k].triggers
        IN  /\ \A a, b \in TriggerIds(tr) :
                   (b \in Range(tr[a + 1].incoming_links))
                       <=> (a \in Range(tr[b + 1].links) /\ a # b)
            /\ LinksOf(tr) = S5Links => IncomingOf(tr) = S5Incoming

C1_Witness ==
    \E k \in 1..Len(maps) :
        /\ LinksOf(maps[k].triggers) = S5Links
        /\ IncomingOf(maps[k].triggers) = S5Incoming

BackEdges(tr) ==
    {<<a, b>> \in TriggerIds(tr) \X TriggerIds(tr) :
        b \in Range(tr[a + 1].incoming_links)}

\* forward edges b -> v, one per distinct link value of a trigger
ForwardEdges(tr) ==
    UNION {{<<b, v>> : v \in Range(tr[b + 1].links)} : b \in TriggerIds(tr)}

SelfEdges(tr) == {e \in ForwardEdges(tr) : e[1] = e[2]}

DanglingEdges(tr) == {e \in ForwardEdges(tr) : e[2] \notin TriggerIds(tr)}

\* C2 as stated: incoming_links is the exact inverse of links, the pairs
\* a = b included, and there are as many back-edges as forward edges.
C2_ExactInverse ==
    \A k \in 1..Len(maps) :
        LET tr == maps[k].triggers
        IN  /\ \A a, b \in TriggerIds(tr) :
                   (b \in Range(tr[a + 1].incoming_links))
                       <=> (a \in Range(tr[b + 1].links))
            /\ Cardinality(BackEdges(tr)) = Cardinality(ForwardEdges(tr))

\* C2 amended: the back-edges are the inverse of the forward edges that are
\* neither self-links nor links to a trigger the map does not have; their
\* number is the number of forward edges less those two kinds.
C2_InverseOffDiagonal ==
    \A k \in 1..Len(maps) :
        LET tr == maps[k].triggers
            kept == (ForwardEdges(tr) \ SelfEdges(tr)) \ DanglingEdges(tr)
        IN  /\ BackEdges(tr) = {<<e[2], e[1]>> : e \in kept}
            /\ Cardinality(BackEdges(tr)) =
                   Cardinality(ForwardEdges(tr))
                     - Cardinality(SelfEdges(tr) \cup DanglingEdges(tr))
            /\ \A a \in TriggerIds(tr) :
                   Len(tr[a + 1].incoming_links) =
                       Cardinality(Range(tr[a + 1].incoming_links))

C2_Witness ==
    \E k \in 1..Len(maps) :
        LET tr == maps[k].triggers
        IN  /\ SelfEdges(tr) # {}
            /\ DanglingEdges(tr) # {}
            /\ BackEdges(tr) # {}

\* the trigger lists whose back-edges are being or have been computed
Linked ==
    {maps[k].triggers : k \in 1..Len(maps)}
        \cup (IF pc = "links" THEN {map.triggers} ELSE {})

\* C26: in every map, incoming_links of trigger i is strictly increasing (so
\* it holds a source trigger at most once, however often that trigger's links
\* hold i), does not hold i, holds only indices of triggers of the map, and
\* each of its entries is a trigger whose links hold i: a link value that is
\* negative or not below the number of triggers yields no back-edge.
C26_IncomingStrictlyIncreasing ==
    \A tr \in Linked :
        \A a \in TriggerIds(tr) :
            LET inc == tr[a + 1].incoming_links
            IN  /\ \A p, q \in 1..Len(inc) : p < q => inc[p] < inc[q]
                /\ a \notin Range(inc)
                /\ Range(inc) \subseteq TriggerIds(tr)
                /\ \A b \in Range(inc) : a \in Range(tr[b + 1].links)

C26_Witness ==
    \E k \in 1..Len(maps) :
        LET tr == maps[k].triggers
        IN  /\ Len(tr) = 3
            /\ tr[2].links = <<0, 0>>
            /\ tr[3].links = <<0>>
            /\ tr[1].incoming_links = <<1, 2>>

\* the triggers assembled so far, with the input map they were read from
Assembled ==
    {<<k, maps[k].triggers>> : k \in 1..Len(maps)}
        \cup (IF pc \in {"triggers", "links"} THEN {<<mi, map.triggers>>} ELSE {})

\* C3: for every assembled trigger, tsubtype is None iff the raw subtype of
\* trigger_types[type_index] is 0 or 0x42000001, it is Some(raw) for every
\* other raw value, and ttype is that entry's trig_type.
C3_SubtypeFolding ==
    \A km \in Assembled :
        LET th == InputMap(km[1]).trigger_header
        IN  \A p \in 1..Len(km[2]) :
                LET raw == th.trigger_types[th.triggers[p].trigger.type_index + 1]
                    out == km[2][p]
                IN  /\ (out.tsubtype = None) <=> (raw.trig_subtype \in {0, 1107296257})
                    /\ raw.trig_subtype \notin {0, 1107296257}
                           => out.tsubtype = Some(raw.trig_subtype)
                    /\ out.ttype = raw.trig_type

C3_Witness ==
    \E k \in 1..Len(maps) :
        LET th == InputMap(k).trigger_header
            raws == [p \in 1..Len(maps[k].triggers) |->
                        th.trigger_types[th.triggers[p].trigger.type_index + 1].trig_subtype]
        IN  /\ Len(maps[k].triggers) = 3
            /\ raws = <<SubtypeUnset, SubtypeUnset + 1, SubtypeUnset>>
            /\ maps[k].triggers[1].tsubtype = None
            /\ maps[k].triggers[2].tsubtype = Some(SubtypeUnset + 1)
            /\ maps[k].triggers[3].tsubtype = None

\* a zone whose refpointer target is there and decodes to an entity
ZoneDecodes(z) ==
    /\ z.entity_refptr < Len(reader.header.refpointer_list)
    /\ reader.data[reader.header.refpointer_list[z.entity_refptr + 1].address].kind
           = "entity"

\* nothing in the source can fail but the decoding of a zone's entity
OnlyZoneDecodeFailures ==
    /\ reader.byte0 >= 0
    /\ reader.header.decodable
    /\ \A k \in 1..Len(reader.header.map_list) :
           /\ InputMap(k).kind = "map"
           /\ \A z \in Range(InputMap(k).zones) :
                  z.entity_refptr < Len(reader.header.refpointer_list)
           /\ \A t \in Range(InputMap(k).trigger_header.triggers) :
                  t.trigger.type_index < Len(InputMap(k).trigger_header.trigger_types)

SomeZoneFails ==
    \E k \in 1..Len(reader.header.map_list) :
        \E z \in Range(InputMap(k).zones) : ~ZoneDecodes(z)

\* C10: a zone whose entity fails to decode is skipped: read_from_file still
\* returns, with every map of the list, its placements and its triggers.
C10_ZoneFailureSkipped ==
    (OnlyZoneDecodeFailures /\ SomeZoneFails /\ pc \in {"done", "panic"})
        => /\ pc = "done"
           /\ Len(maps) = Len(reader.header.map_list)
           /\ \A k \in 1..Len(maps) :
                  /\ maps[k].placements = InputMap(k).placements
                  /\ Len(maps[k].triggers) = Len(InputMap(k).trigger_header.triggers)

\* the entity a zone refers to, as the source decodes it
ZoneEntity(z) ==
    reader.data[reader.header.refpointer_list[z.entity_refptr + 1].address]

ZoneIsMapZone(z) == ZoneEntity(z).variant = "MapZone"

\* the payloads of the zones that decode to a MapZone, in zone order
MapZonePayloads(zones) ==
    LET kept == SelectSeq(zones, ZoneIsMapZone)
    IN  [k \in 1..Len(kept) |-> [entity_refptr |-> ZoneEntity(kept[k]).entity_refptr]]

\* C11: mapzone_entities holds, in zone order, exactly the payloads of the
\* zones whose entity at refpointer_list[z.entity_refptr] decodes to the MapZone
\* variant, for the zones read so far of the map under construction and for
\* all zones of every pushed map; a zone of another variant adds nothing and
\* the zones after it are still read.
C11_MapZoneFilter ==
    /\ pc = "zones" =>
           map.mapzone_entities = MapZonePayloads(SubSeq(xmap.zones, 1, zi - 1))
    /\ pc \in {"triggers", "links"} =>
           map.mapzone_entities = MapZonePayloads(xmap.zones)
    /\ \A k \in 1..Len(maps) :
           maps[k].mapzone_entities = MapZonePayloads(InputMap(k).zones)

C11_Witness ==
    \E k \in 1..Len(maps) :
        LET zs == InputMap(k).zones
        IN  /\ Len(zs) = 2
            /\ ZoneEntity(zs[1]).variant = "Other"
            /\ ZoneEntity(zs[2]).variant = "MapZone"
            /\ maps[k].mapzone_entities =
                   <<[entity_refptr |-> ZoneEntity(zs[2]).entity_refptr]>>

-----------------------------------------------------------------------------
(* Properties of execute_command *)

\* what a strip adds to the cursor: strips of fewer than two triangles are
\* skipped
Counted(tricount) == IF tricount < 2 THEN 0 ELSE tricount

RECURSIVE SumCounted(_, _)
\* the sum of tri_count over the counted strips among the first n
SumCounted(tris, n) ==
    IF n = 0 THEN 0 ELSE SumCounted(tris, n - 1) + Counted(tris[n][1])

\* triangle number j (from 0) of a strip that starts at position start of I
StripTriangle(I, start, j) ==
    LET k == start + j
    IN  IF j % 2 = 0
        THEN <<I[k + 1], I[k + 2], I[k + 3]>>
        ELSE <<I[k + 3], I[k + 2], I[k + 1]>>

RECURSIVE ExpectedTriangles(_, _, _)
\* the triangles of the first n strips
ExpectedTriangles(I, tris, n) ==
    IF n = 0 THEN <<>>
    ELSE ExpectedTriangles(I, tris, n - 1) \o
             [j \in 1..Counted(tris[n][1]) |->
                 StripTriangle(I, SumCounted(tris, n - 1), j - 1)]

\* C4: while the first child (index_offset = 0) is expanded, index_offset_local
\* is the sum of the tri counts of the finished strips that have at least two
\* triangles, and the faces are, strip after strip, the triangles
\* (I[k], I[k+1], I[k+2]) for even i and (I[k+2], I[k+1], I[k]) for odd i,
\* k = index_offset_local + i; a strip with tri_count < 2 adds nothing.
\* Indices [a,b,c,d,e] with tri_count 3 give (a,b,c), (d,c,b), (c,d,e).
C4_TristripExpansion ==
    /\ (pc \in {"strips", "faces"} /\ ci = 1) =>
           /\ index_offset_local = SumCounted(tristrips, si - 1)
           /\ faces = ExpectedTriangles(indices, tristrips, si - 1) \o
                  (IF pc = "faces"
                   THEN [j \in 1..(fi - index_offset_local) |->
                            StripTriangle(indices, index_offset_local, j - 1)]
                   ELSE <<>>)
    /\ (pc = "strips" /\ ci = 1 /\ si > Len(tristrips)
            /\ indices = <<0, 1, 2, 3, 4>> /\ tristrips = <<(<<3, 1>>)>>)
           => faces = <<(<<0, 1, 2>>), (<<3, 2, 1>>), (<<2, 3, 4>>)>>

C4_Witness ==
    /\ pc = "strips" /\ ci = 1 /\ si > Len(tristrips)
    /\ indices = <<0, 1, 2, 3, 4>>
    /\ tristrips = <<(<<3, 1>>)>>
    /\ faces = <<(<<0, 1, 2>>), (<<3, 2, 1>>), (<<2, 3, 4>>)>>

ChildExpanded == pc = "strips" /\ si > Len(tristrips)

\* C5 as stated: when a child's strips are expanded, the sum of tri_count over
\* its strips with tri_count >= 2 is the number of indices read from its
\* index buffer.
C5_ReadCountIsSum ==
    ChildExpanded =>
        Cardinality(index_reads) = SumCounted(tristrips, Len(tristrips))

\* C5 amended: that sum is what index_offset_local has advanced by; the
\* positions read are 0 .. sum + 1 (two more than the sum) when it is not 0.
C5_CursorAdvance ==
    ChildExpanded =>
        LET total == SumCounted(tristrips, Len(tristrips))
        IN  /\ index_offset_local = total
            /\ index_reads = IF total = 0 THEN {} ELSE 0..(total + 1)

C5_Witness ==
    /\ ChildExpanded
    /\ \E a, b \in 1..Len(tristrips) :
           a < b /\ tristrips[a][1] >= 2 /\ tristrips[b][1] >= 2
    /\ \E a \in 1..Len(tristrips) : tristrips[a][1] < 2
    /\ Cardinality(index_reads) = index_offset_local + 2

\* C6: every vertex index of an emitted triangle is less than the number of
\* vertices emitted for the entity.
C6_IndicesInRange ==
    pc = "write" =>
        \A k \in 1..Len(faces) : \A c \in 1..3 : faces[k][c] < Len(vertex_data)

RECURSIVE VerticesBefore(_, _)
\* the number of vertices of the children before child c
VerticesBefore(children, c) ==
    IF c <= 1 THEN 0
    ELSE VerticesBefore(children, c - 1) + children[c - 1].vertex_count

ShiftTriangles(ts, d) ==
    [k \in 1..Len(ts) |-> <<ts[k][1] + d, ts[k][2] + d, ts[k][3] + d>>]

RECURSIVE ExpectedFaces(_, _)
\* the triangles of the first n children, each child's shifted by the number
\* of vertices of the children before it
ExpectedFaces(children, n) ==
    IF n = 0 THEN <<>>
    ELSE ExpectedFaces(children, n - 1) \o
             ShiftTriangles(ExpectedTriangles(children[n].index_data,
                                              children[n].tristrip_data,
                                              children[n].tristrip_count),
                            VerticesBefore(children, n))

\* C7: when all children of an entity are expanded, each triangle index of
\* child n is the child's own index value plus the number of vertices of the
\* children before it, and the vertices are those of the children in child
\* order; two children of 3 vertices give 6 vertices and an offset of 3.
C7_ChildOffsets ==
    pc = "write" =>
        /\ faces = ExpectedFaces(nents, Len(nents))
        /\ Len(vertex_data) = VerticesBefore(nents, Len(nents) + 1)
        /\ \A c \in 1..Len(nents) : \A k \in 1..nents[c].vertex_count :
               vertex_data[VerticesBefore(nents, c) + k].pos
                   = nents[c].vertex_data[k].pos
        /\ (Len(nents) = 2 /\ nents[1].vertex_count = 3 /\ nents[2].vertex_count = 3
                /\ nents[1].tristrip_count = 0 /\ nents[2].tristrip_count = 1)
               => /\ Len(vertex_data) = 6
                  /\ faces = <<(<<3, 4, 5>>), (<<4, 5, 4>>)>>

C7_Witness ==
    /\ pc = "write"
    /\ Len(nents) = 2
    /\ nents[1].vertex_count = 3 /\ nents[2].vertex_count = 3
    /\ Len(vertex_data) = 6
    /\ faces = <<(<<0, 1, 2>>), (<<1, 2, 1>>), (<<3, 4, 5>>), (<<4, 5, 4>>)>>

EntityDecodes(k) == file.data[file.header.entity_list[k].address].kind = "base_entity"

\* an entity record whose assembly cannot fail once it is decoded
WellFormed(ent) ==
    /\ ~ChildListPanics(ent)
    /\ \A c \in Range(ChildList(ent)) :
           /\ c.vertex_count <= Len(c.vertex_data)
           /\ c.index_count <= Len(c.index_data)
           /\ c.tristrip_count <= Len(c.tristrip_data)
           /\ LET total == SumCounted(c.tristrip_data, c.tristrip_count)
              IN  total = 0 \/ total + 2 <= c.index_count

\* nothing can fail but the decoding of an entity record
OnlyRecordDecodeFailures ==
    /\ file.byte0 >= 0
    /\ file.header.decodable
    /\ platform \in {"Pc", "Xbox"}
    /\ \A k \in 1..Len(file.header.entity_list) :
           EntityDecodes(k) => WellFormed(file.data[file.header.entity_list[k].address])

\* C9: when the record of an entry fails to decode, every other entry is
\* still decoded and processed (its .obj is written).
C9_PerRecordIsolation ==
    (OnlyRecordDecodeFailures /\ pc \in {"returned", "panic"}) =>
        \A k \in 1..Len(file.header.entity_list) :
            EntityDecodes(k) =>
                \E w \in 1..Len(fs.files) :
                    fs.files[w].name = file.header.entity_list[k].hashcode

\* the record of the entry the loop of lines 70-183 is at
CurrentEntity == file.data[file.header.entity_list[eidx].address]

\* the pointer of the branch the object type selects is null
NullBranch(ent) ==
    IF ent.object_type = 1537
    THEN ent.normal_entity = None
    ELSE \/ ent.split_entity = None
         \/ \E k \in 1..Len(ent.split_entity[1].entities) :
                ent.split_entity[1].entities[k].normal_entity = None

SelectedChildren(ent) ==
    IF ent.object_type = 1537
    THEN <<ent.normal_entity[1]>>
    ELSE [k \in 1..Len(ent.split_entity[1].entities) |->
             ent.split_entity[1].entities[k].normal_entity[1]]

\* the operation returned an error value
ReturnedErr == pc = "returned" /\ result \notin {"", "Ok"}

\* C12: while an entity is processed its child list is its normal_entity alone
\* when object_type = 1537, and otherwise the entities of its split_entity in
\* order, each projected to its normal_entity; when the pointer of the
\* selected branch is null the operation ends by returning an error value.
C12_ChildSelection ==
    /\ pc \in {"children", "strips", "faces", "write"} =>
           nents = SelectedChildren(CurrentEntity)
    /\ (pc \in {"returned", "panic"} /\ eidx \in 1..Len(file.header.entity_list)
            /\ CurrentEntity.kind = "base_entity" /\ NullBranch(CurrentEntity))
           => ReturnedErr

\* C13: with a platform that is neither PC nor Xbox the operation ends by
\* returning an error value, never by a panic, no entity record is decoded and
\* neither the output folder nor an output file is created; with PC or Xbox
\* the operation is not rejected for its platform.
C13_PlatformGate ==
    /\ platform \in Platforms \ {"Pc", "Xbox"} =>
           /\ pc \in {"returned", "panic"} => ReturnedErr
           /\ eidx = 0
           /\ fs = [dir |-> FALSE, files |-> <<>>]
    /\ platform \in {"Pc", "Xbox"} => result # "Err: unsupported platform"

\* the three indices of a triangle are pairwise different
PairwiseDifferent(t) == Cardinality({t[1], t[2], t[3]}) = 3

RECURSIVE WrittenFaces(_)
\* the lines `f` of the emitted triangles ts, one triangle after the other
WrittenFaces(ts) ==
    IF ts = <<>> THEN <<>>
    ELSE LET t == ts[Len(ts)]
         IN  WrittenFaces(SubSeq(ts, 1, Len(ts) - 1)) \o
                 (IF PairwiseDifferent(t)
                  THEN <<(<<t[1] + 1, t[2] + 1, t[3] + 1>>)>>
                  ELSE <<>>)

\* the .obj of an entity has just been written; `faces` still holds the
\* triangles emitted for it
ObjWritten == pc = "entities" /\ eidx > 1

\* C21: the .obj written for an entity has one face line for each emitted
\* triangle whose three indices are pairwise different and none for the
\* others, in the order of emission, each index written as v + 1; the lines
\* are the same as if the dropped triangles had never been emitted.
C21_ObjDropsDegenerates ==
    ObjWritten =>
        LET out == fs.files[Len(fs.files)].f
            kept == SelectSeq(faces, PairwiseDifferent)
        IN  /\ out = WrittenFaces(faces)
            /\ out = WrittenFaces(kept)
            /\ Len(out) = Cardinality({k \in 1..Len(faces) : PairwiseDifferent(faces[k])})
            /\ \A k \in 1..Len(out) :
                   out[k] = <<kept[k][1] + 1, kept[k][2] + 1, kept[k][3] + 1>>

C21_Witness ==
    /\ ObjWritten
    /\ faces = <<(<<0, 1, 2>>), (<<1, 2, 1>>), (<<3, 4, 5>>), (<<4, 5, 4>>)>>
    /\ fs.files[Len(fs.files)].f = <<(<<1, 2, 3>>), (<<4, 5, 6>>)>>

\* the children whose vertices have been read
ChildrenRead ==
    IF pc \in {"strips", "faces"} THEN ci
    ELSE IF pc = "children" THEN ci - 1
    ELSE Len(nents)

\* C16: for the header versions 240, 250 and 252 every vertex read has the
\* position and the uv of the stream and the normal (0,0,0); for every other
\* version its normal is the one of the stream; exactly vertex_count vertices
\* are read for each child.
C16_VertexLayout ==
    pc \in {"children", "strips", "faces", "write"} =>
        /\ Len(vertex_data) = VerticesBefore(nents, ChildrenRead + 1)
        /\ \A c \in 1..ChildrenRead : \A k \in 1..nents[c].vertex_count :
               LET v == vertex_data[VerticesBefore(nents, c) + k]
                   raw == nents[c].vertex_data[k]
               IN  /\ v.pos = raw.pos
                   /\ v.uv = raw.uv
                   /\ header.version \in {240, 250, 252} => v.normal = <<0, 0, 0>>
                   /\ header.version \notin {240, 250, 252} => v.normal = raw.mid

C16_Witness ==
    /\ pc = "write"
    /\ header.version = 250
    /\ Len(vertex_data) = 2
    /\ Len(nents[1].vertex_data) = 3
    /\ vertex_data[2].normal = <<0, 0, 0>>
    /\ nents[1].vertex_data[2].mid # <<0, 0, 0>>

\* C17: descriptor n (from 0) of a child is read at the absolute offset
\* tristrip_data + n * 20 when the version is at most 252 and at
\* tristrip_data + n * 16 when it is greater; tristrip_count descriptors are
\* read, in index order.
C17_TristripOffsets ==
    pc \in {"strips", "faces"} =>
        LET nent == nents[ci]
            stride == IF header.version <= 252 THEN 20 ELSE 16
        IN  /\ Len(tristrip_reads) = nent.tristrip_count
            /\ \A n \in 0..(nent.tristrip_count - 1) :
                   tristrip_reads[n + 1] = nent.tristrip_offset + n * stride
            /\ tristrips = SubSeq(nent.tristrip_data, 1, nent.tristrip_count)

C17_Witness ==
    /\ pc = "strips"
    /\ header.version = 251
    /\ nents[ci].tristrip_count = 2
    /\ tristrip_reads = <<nents[ci].tristrip_offset, nents[ci].tristrip_offset + 20>>
    /\ Len(tristrips) = 2

-----------------------------------------------------------------------------
(* Properties of both decoders *)

\* the byte source of the decoder that runs
Source == IF platform = "idle" THEN reader ELSE file

\* C15: once probed, the endianness is big if and only if byte 0 of the source
\* is 0x47 and little otherwise; it is probed before the header is read and is
\* the one in use at every later read; the source is at offset 0 when the
\* header read starts.
C15_EndianProbe ==
    /\ endian # "unset" =>
           /\ (endian = "Big") <=> (Source.byte0 = 71)
           /\ (endian = "Little") <=> (Source.byte0 # 71)
    /\ pc \in {"header", "entity_header"} => pos = 0
    /\ pc \notin {"start", "open", "panic"} => endian # "unset"

C15_Witness ==
    /\ pc = "entity_header"
    /\ file.byte0 = 71
    /\ endian = "Big"
    /\ pos = 0

\* C14: no input makes the decoder abort: the operation never ends by a panic,
\* whatever the type_index of a trigger, the entity_refptr of a zone or the
\* length of an index buffer.
C14_NeverPanics == pc # "panic"

-----------------------------------------------------------------------------
(* Properties of EntityRenderer *)

\* C8: the strips a mesh is rendered from are sorted non-decreasing by
\* transparency, strips of equal transparency keep their input order, and the
\* sorted strips are a permutation of the input strips; the transparencies
\* [1,0,2] give the order [0,1,2].
C8_StableStripOrder ==
    pc = "loaded" =>
        LET sorted == mesh[1]
        IN  /\ \A a, b \in 1..Len(sorted) :
                   a < b => sorted[a].transparency <= sorted[b].transparency
            /\ \A a, b \in 1..Len(sorted) :
                   (a < b /\ sorted[a].transparency = sorted[b].transparency)
                       => sorted[a].start_index < sorted[b].start_index
            /\ Len(sorted) = Len(strips)
            /\ Range(sorted) = Range(strips)
            /\ [k \in 1..Len(strips) |-> strips[k].transparency] = <<1, 0, 2>>
                   => [k \in 1..Len(sorted) |-> sorted[k].start_index] = <<1, 0, 2>>

C8_Witness ==
    /\ pc = "loaded"
    /\ [k \in 1..Len(strips) |-> strips[k].transparency] = <<1, 0, 1, 0>>
    /\ [k \in 1..Len(mesh[1]) |-> mesh[1][k].start_index] = <<1, 3, 0, 2>>

-----------------------------------------------------------------------------
(* Properties of EntityRenderer::draw_strip *)

\* the blend mode the transparency byte alone selects
ByteBlend(t) ==
    IF t.transparency % 256 = 2 THEN "ReverseSubtract"
    ELSE IF t.transparency % 256 = 1 THEN "Additive"
    ELSE "None"

\* C18 as stated: every strip is drawn with the blend mode its transparency
\* byte selects: 2 reverse-subtract, 1 additive, 0 and every other value none.
C18_BlendByByteAlone ==
    \A k \in 1..Len(draws) : draws[k].blend = ByteBlend(draws[k].strip)

\* the strip's texture is in the table and has one of the flag bits 29, 30
HasCutoutTexture(t) ==
    /\ t.texture_index \in 0..(Len(textures) - 1)
    /\ (textures[t.texture_index + 1].flags \div 536870912) % 4 # 0

\* C18 amended: the transparency byte selects the mode (2 reverse-subtract,
\* 1 additive, every other value none) only as a start: a strip whose byte
\* selects none is drawn with alpha blending when its flag 0x8 or 0x1 is set,
\* and a strip with flag 0x8 clear whose texture has a cutout bit is drawn in
\* cutout mode whatever its byte.
C18_BlendByByteFlagsTexture ==
    \A k \in 1..Len(draws) :
        LET t == draws[k].strip
            alpha == (t.flags \div 8) % 2 = 1 \/ t.flags % 2 = 1
        IN  draws[k].blend =
                IF HasCutoutTexture(t) /\ (t.flags \div 8) % 2 = 0 THEN "Cutout"
                ELSE IF ByteBlend(t) = "None" /\ alpha THEN "Blend"
                ELSE ByteBlend(t)

C18_Witness ==
    \E k \in 1..Len(draws) :
        /\ draws[k].strip.transparency = 0
        /\ draws[k].strip.flags = 1
        /\ ~HasCutoutTexture(draws[k].strip)
        /\ draws[k].blend = "Blend"

\* a draw pass is at a strip whose flags have bit 0x10
AtHiddenStrip ==
    /\ pc \in {"draw_opaque", "draw_transparent"}
    /\ sidx \in 1..Len(mesh[1])
    /\ (mesh[1][sidx].flags \div 16) % 2 = 1

\* C19: the step of either pass over a strip with flag 0x10 leaves the GL
\* state (culling, bound texture, blend mode) as it was and issues no draw
\* call.
C19_HiddenStripUntouched ==
    [][AtHiddenStrip => (gl' = gl /\ draws' = draws)]_vars

C19_Witness ==
    /\ pc = "drawn"
    /\ \E a, b \in 1..Len(mesh[1]) :
           /\ mesh[1][a].flags = 16 /\ mesh[1][a].transparency = 0
           /\ mesh[1][b].flags = 16 /\ mesh[1][b].transparency # 0
    /\ draws = <<>>
    /\ gl.blend = "unset"

\* C20: every strip drawn sees culling disabled when its flag 0x40 is set, and
\* otherwise enabled on PC and Xbox and disabled on GameCube, Wii and PS2,
\* whatever the culling state before the strip was.
C20_CullingPerStrip ==
    \A k \in 1..Len(draws) :
        draws[k].cull_face =
            IF (draws[k].strip.flags \div 64) % 2 = 1 THEN "disabled"
            ELSE IF renderer_platform \in {"Pc", "Xbox"} THEN "enabled"
            ELSE "disabled"

C20_Witness ==
    /\ renderer_platform = "Xbox"
    /\ Len(draws) = 2
    /\ draws[1].strip.flags = 64 /\ draws[1].cull_face = "disabled"
    /\ draws[2].strip.flags = 0 /\ draws[2].cull_face = "enabled"

-----------------------------------------------------------------------------
(* Properties of EntityRenderer::draw_both *)

\* the calls of draw_strip that were handed strip t
CallsOf(t) == {k \in 1..Len(strip_calls) : strip_calls[k][2] = t}

\* C23: every strip of the mesh is selected by exactly one of the two passes,
\* the opaque pass when its transparency is 0 and its flag 0x8 is clear and
\* the transparent pass otherwise; when draw_both is over every strip was
\* handed to draw_strip exactly once, by the pass that selects it, and every
\* call of the opaque pass precedes every call of the transparent pass.
C23_PassesPartition ==
    /\ \A k \in 1..Len(strip_calls) :
           LET t == strip_calls[k][2]
               opaque == t.transparency = 0 /\ (t.flags \div 8) % 2 = 0
           IN  /\ strip_calls[k][1] = (IF opaque THEN "opaque" ELSE "transparent")
               /\ Cardinality(CallsOf(t)) = 1
    /\ \A a, b \in 1..Len(strip_calls) :
           (strip_calls[a][1] = "opaque" /\ strip_calls[b][1] = "transparent") => a < b
    /\ pc = "drawn" =>
           /\ Len(strip_calls) = Len(strips)
           /\ \A k \in 1..Len(strips) : Cardinality(CallsOf(strips[k])) = 1

C23_Witness ==
    /\ pc = "drawn"
    /\ mesh[1] = <<TriStrip(1, 0, 8, 0), TriStrip(2, 0, 0, 0)>>
    /\ strip_calls = <<(<<"opaque", mesh[1][2]>>), (<<"transparent", mesh[1][1]>>)>>

-----------------------------------------------------------------------------
(* Properties of MapFrame's paint callback *)

ClaimedOrder ==
    <<"start_render", "sky", "refs_opaque", "placements_opaque",
      "depth_mask", "refs_transparent", "placements_transparent">>

Rank(stage) == CHOOSE k \in 1..Len(ClaimedOrder) : ClaimedOrder[k] = stage

IsDraw(e) == e.call \in {"draw_opaque", "draw_transparent"}

\* the renderers drawn by the calls logged for a stage, in their order
DrawnIn(log, stage) ==
    LET hits == SelectSeq(log, LAMBDA e : e.stage = stage /\ IsDraw(e))
    IN  [k \in 1..Len(hits) |-> hits[k].renderer]

\* the renderers of the placements that have one, in the placements' order
PlacedRenderers ==
    LET hits == SelectSeq(map_frame.placements,
                    LAMBDA o : Find(map_frame.placement_renderers, o) # 0)
    IN  [k \in 1..Len(hits) |->
            PlacementRenderer(Find(map_frame.placement_renderers, hits[k]))]

Completed(t) == tpc[t] = "idle" /\ paint_log[t] # <<>>

-----------------------------------------------------------------------------
(* Properties of MapFrame's mutexes *)

HeldBy(t) == {m \in DOMAIN holder : holder[m] = t}

\* some threads each wait for a mutex held inside the group
Deadlocked ==
    \E group \in SUBSET Threads :
        /\ group # {}
        /\ \A t \in group : \E m \in NextLock(t) : holder[m] \in group

\* C24: in any interleaving of the GUI thread and the paint callbacks no
\* thread locks a mutex it holds, no thread acquires a renderer's mutex while
\* it holds the viewer's (a thread holding the viewer's mutex holds at most
\* one renderer's, taken before), and no deadlock state is reachable.
C24_MutexDiscipline ==
    pc = "gui" =>
        /\ \A t \in Threads : \A m \in NextLock(t) :
               /\ holder[m] # t
               /\ m # Viewer => Viewer \notin HeldBy(t)
        /\ \A t \in Threads : Cardinality(HeldBy(t) \ {Viewer}) <= 1
        /\ HeldBy("gui") \subseteq {Viewer}
        /\ ~Deadlocked

\* one callback is inside start_render with the viewer locked while the
\* other holds a ref renderer and waits for the viewer
C24_Witness ==
    /\ pc = "gui"
    /\ tpc["paint1"] = "viewer_locked"
    /\ holder[Viewer] = "paint1"
    /\ tpc["paint2"] = "renderer_locked"
    /\ HeldBy("paint2") = {RefRenderer(1)}
    /\ NextLock("paint2") = {Viewer}
    /\ Stage("paint2") = "refs_transparent"

-----------------------------------------------------------------------------
(* Properties of EurochefApp's load_input *)

IsStore(k) == app_log[k][1] = "store"

IsTake(k) == app_log[k][1] = "take"

IsLoad(k) == app_log[k][1] = "load_file"

\* the position of the last store before position q, 0 without one
LastStore(q) ==
    LET stores == {j \in 1..(q - 1) : IsStore(j)}
    IN  IF stores = {} THEN 0 ELSE CHOOSE j \in stores : \A o \in stores : o <= j

\* the position of the last take before position k, 0 without one
LastTake(k) ==
    LET takes == {q \in 1..(k - 1) : IsTake(q)}
    IN  IF takes = {} THEN 0 ELSE CHOOSE q \in takes : \A o \in takes : o <= q

\* C25: load_file is called only by update, once after its take returned a
\* path, and with that path; a take returns the path of the last store
\* before it when no other take came since that store, and None otherwise:
\* a stored path is loaded at most once, and of several paths stored between
\* two calls of update only the last is loaded.
C25_HandOff ==
    pc = "app" =>
        /\ \A k \in 1..Len(app_log) :
               IsLoad(k) =>
                   LET q == LastTake(k)
                   IN  /\ q # 0
                       /\ app_log[q][2] # None
                       /\ app_log[k][2] = app_log[q][2]
                       /\ \A o \in (q + 1)..(k - 1) : ~IsLoad(o)
        /\ \A q \in 1..Len(app_log) :
               IsTake(q) =>
                   LET j == LastStore(q)
                       fresh == j # 0 /\ \A o \in (j + 1)..(q - 1) : ~IsTake(o)
                   IN  app_log[q][2] = IF fresh THEN app_log[j][2] ELSE None
        /\ app_pc = "idle" /\ load_path = None =>
               Cardinality({k \in 1..Len(app_log) : IsLoad(k)}) =
               Cardinality({q \in 1..Len(app_log) :
                                IsTake(q) /\ app_log[q][2] # None})

\* the path given to new is loaded by the first update, the second finds
\* the cell empty, two dialogs then store path 2 and path 1, and the third
\* update loads path 1 alone
C25_Witness ==
    /\ pc = "app"
    /\ app_log = <<(<<"store", Some(1)>>), (<<"take", Some(1)>>),
                   (<<"load_file", Some(1)>>), (<<"take", None>>),
                   (<<"store", Some(2)>>), (<<"store", Some(1)>>),
                   (<<"take", Some(1)>>), (<<"load_file", Some(1)>>)>>
    /\ load_input = None

====
